---------------------------- MODULE Spec2Model ----------------------------
(* Single-colour palette fitter of squish-ccr (singlepalettefit.cpp) and the  *)
(* gamma look-up tables of maths.cpp, as a state machine.                     *)
(*                                                                            *)
(* Numbers: a float of the error LUTs is kept as an integer count of 1e-9     *)
(* (the literals of maths.cpp have at most nine decimals); a Scr4 error is an *)
(* integer count of 1e-8 built from LUT values cut to 1e-4; a subset point is *)
(* 255*v in units of 1/PointDen.                                              *)
EXTENDS Integers, Sequences, FiniteSets, TLC

(***************************************************************************)
(* Bounds of the model                                                     *)
(***************************************************************************)
\* subsets of the palette a fitter is built on (the format allows up to 3)
NumSets == 2
\* fitter objects alive at the same time
NumFitters == 2
\* palettes the fitters are built on
NumPalettes == 2
\* a subset point is 255*v counted in units of 1/PointDen
PointDen == 2

Sets == 0 .. (NumSets - 1)
Fitters == 1 .. NumFitters
Channels == 0 .. 3

(***************************************************************************)
(* Scr4 / float encoding                                                   *)
(***************************************************************************)
\* Scr4(FLT_MAX): above every error and above Scr4(INT_MAX)
FLT_MAX == 2147483647
\* Scr4(INT_MAX): above every error the loop can compute
INT_MAX == 2000000000
\* a LUT float (1e-9 units) is cut to the 1e-4 fixed point of the error sum
LutDen == 100000

Pow2(n) == IF n = 0 THEN 1 ELSE
           IF n = 1 THEN 2 ELSE
           IF n = 2 THEN 4 ELSE
           IF n = 3 THEN 8 ELSE
           IF n = 4 THEN 16 ELSE
           IF n = 5 THEN 32 ELSE
           IF n = 6 THEN 64 ELSE
           IF n = 7 THEN 128 ELSE 256

Abs(n) == IF n < 0 THEN 0 - n ELSE n

\* C++ float-to-int conversion: truncation toward zero
TruncDiv(a, b) == IF a >= 0 THEN a \div b ELSE 0 - ((0 - a) \div b)

(***************************************************************************)
(* singlepalettelookup.inl is not part of the sources: the tables are      *)
(* built as the specification describes them (search over the endpoint     *)
(* lattice for the best interpolant of every target and slot).             *)
(***************************************************************************)
\* dequantisation of a lattice coordinate by bit replication; a channel of
\* zero bits is the fixed maximum
Dequant(bits, v) ==
  IF bits = 0 THEN 255
  ELSE IF bits >= 8 THEN v
  ELSE v * Pow2(8 - bits) + (v \div Pow2(2 * bits - 8))

Lattice(bits) == 0 .. (Pow2(bits) - 1)

\* y is the dequantised value of some lattice coordinate
IsLatticeByte(bits, y) ==
  /\ y \in 0 .. 255
  /\ Dequant(bits, y \div Pow2(8 - bits)) = y

\* (k-1) times the slot-th entry of the k-entry codebook between the
\* dequantised endpoints ds and de
InterpNum(k, ds, de, slot) == (k - 1 - slot) * ds + slot * de

\* the dequantised end points that put the slot-th entry at distance m/(k-1)
\* of the target t, given the start s
EndsAt(bits, k, s, slot, t, m) ==
  LET rest(sign) == (k - 1) * t + sign * m - (k - 1 - slot) * Dequant(bits, s)
  IN  IF slot = 0
      THEN IF Abs(InterpNum(k, Dequant(bits, s), 0, 0) - (k - 1) * t) = m
           THEN {Dequant(bits, s)} ELSE {}
      ELSE {rest(sign) \div slot : sign \in {y \in {-1, 1} :
              /\ rest(y) % slot = 0
              /\ IsLatticeByte(bits, rest(y) \div slot)}}

\* some endpoint pair puts the slot-th entry at distance m/(k-1) of t
Reaches(bits, k, slot, t, m) ==
  \E s \in Lattice(bits) : EndsAt(bits, k, s, slot, t, m) # {}

\* the least such distance (a lattice point is never further than 255 away)
LeastErrNum(bits, k, slot, t) ==
  CHOOSE m \in 0 .. (255 * (k - 1)) :
    /\ Reaches(bits, k, slot, t, m)
    /\ \A n \in 0 .. (m - 1) : ~Reaches(bits, k, slot, t, n)

\* SP_SourceBlock of the table for (target, slot): endpoints of least error
\* and that error rounded to a byte
BestSource(bits, k, slot, t) ==
  LET m  == LeastErrNum(bits, k, slot, t)
      s  == CHOOSE s \in Lattice(bits) : EndsAt(bits, k, s, slot, t, m) # {}
      de == CHOOSE de \in EndsAt(bits, k, s, slot, t, m) : TRUE
  IN  [start |-> s, end |-> de \div Pow2(8 - bits),
       error |-> (2 * m + (k - 1)) \div (2 * (k - 1))]

\* maths.cpp: float baseLUT_sRGB[256], literals in units of 1e-9
baseLUT_sRGB ==
  <<
    0, 303527, 1148190, 1327720, 1522640, 1733310, 1960070, 2203250,
    2463180, 2740170, 3034520, 3346540, 3676510, 4024720, 4391440, 4776950,
    5181520, 5605390, 6048830, 6512090, 6995410, 7499030, 8023190, 8568130,
    9134060, 9721220, 10329800, 10960100, 11612200, 12286500, 12983000, 13702100,
    14443800, 15208500, 15996300, 16807400, 17642000, 18500200, 19382400, 20288600,
    21219000, 22173900, 23153400, 24157600, 25186900, 26241200, 27320900, 28426000,
    29556800, 30713400, 31896000, 33104800, 34339800, 35601300, 36889400, 38204400,
    39546200, 40915200, 42311400, 43735000, 45186200, 46665100, 48171800, 49706600,
    51269500, 52860600, 54480300, 56128500, 57805400, 59511200, 61246100, 63010000,
    64803300, 66625900, 68478200, 70360100, 72271900, 74213600, 76185400, 78187400,
    80219800, 82282700, 84376200, 86500500, 88655600, 90841700, 93059000, 95307500,
    97587300, 99898700, 102242000, 104616000, 107023000, 109462000, 111932000, 114435000,
    116971000, 119538000, 122139000, 124772000, 127438000, 130136000, 132868000, 135633000,
    138432000, 141263000, 144128000, 147027000, 149960000, 152926000, 155926000, 158961000,
    162029000, 165132000, 168269000, 171441000, 174647000, 177888000, 181164000, 184475000,
    187821000, 191202000, 194618000, 198069000, 201556000, 205079000, 208637000, 212231000,
    215861000, 219526000, 223228000, 226966000, 230740000, 234551000, 238398000, 242281000,
    246201000, 250158000, 254152000, 258183000, 262251000, 266356000, 270498000, 274677000,
    278894000, 283149000, 287441000, 291771000, 296138000, 300544000, 304987000, 309469000,
    313989000, 318547000, 323143000, 327778000, 332452000, 337164000, 341914000, 346704000,
    351533000, 356400000, 361307000, 366253000, 371238000, 376262000, 381326000, 386429000,
    391572000, 396755000, 401978000, 407240000, 412543000, 417885000, 423268000, 428690000,
    434154000, 439657000, 445201000, 450786000, 456411000, 462077000, 467784000, 473531000,
    479320000, 485150000, 491021000, 496933000, 502886000, 508881000, 514918000, 520996000,
    527115000, 533276000, 539479000, 545724000, 552011000, 558340000, 564712000, 571125000,
    577580000, 584078000, 590619000, 597202000, 603827000, 610496000, 617207000, 623960000,
    630757000, 637597000, 644480000, 651406000, 658375000, 665387000, 672443000, 679542000,
    686685000, 693872000, 701102000, 708376000, 715693000, 723055000, 730461000, 737910000,
    745404000, 752942000, 760525000, 768151000, 775822000, 783538000, 791298000, 799103000,
    806952000, 814847000, 822786000, 830770000, 838799000, 846873000, 854993000, 863157000,
    871367000, 879622000, 887923000, 896269000, 904661000, 913099000, 921582000, 930111000,
    938686000, 947307000, 955973000, 964686000, 973445000, 982251000, 991102000, 1000000000
  >>

\* maths.cpp: float baseLUT_Linear[256], literals in units of 1e-9
baseLUT_Linear ==
  <<
    0, 3921570, 7843140, 11764700, 15686300, 19607800, 23529400, 27451000,
    31372600, 35294100, 39215700, 43137300, 47058800, 50980400, 54902000, 58823500,
    62745100, 66666700, 70588200, 74509800, 78431400, 82352900, 86274500, 90196100,
    94117600, 98039200, 101961000, 105882000, 109804000, 113725000, 117647000, 121569000,
    125490000, 129412000, 133333000, 137255000, 141176000, 145098000, 149020000, 152941000,
    156863000, 160784000, 164706000, 168627000, 172549000, 176471000, 180392000, 184314000,
    188235000, 192157000, 196078000, 200000000, 203922000, 207843000, 211765000, 215686000,
    219608000, 223529000, 227451000, 231373000, 235294000, 239216000, 243137000, 247059000,
    250980000, 254902000, 258824000, 262745000, 266667000, 270588000, 274510000, 278431000,
    282353000, 286275000, 290196000, 294118000, 298039000, 301961000, 305882000, 309804000,
    313726000, 317647000, 321569000, 325490000, 329412000, 333333000, 337255000, 341176000,
    345098000, 349020000, 352941000, 356863000, 360784000, 364706000, 368627000, 372549000,
    376471000, 380392000, 384314000, 388235000, 392157000, 396078000, 400000000, 403922000,
    407843000, 411765000, 415686000, 419608000, 423529000, 427451000, 431373000, 435294000,
    439216000, 443137000, 447059000, 450980000, 454902000, 458824000, 462745000, 466667000,
    470588000, 474510000, 478431000, 482353000, 486275000, 490196000, 494118000, 498039000,
    501961000, 505882000, 509804000, 513726000, 517647000, 521569000, 525490000, 529412000,
    533333000, 537255000, 541176000, 545098000, 549020000, 552941000, 556863000, 560784000,
    564706000, 568627000, 572549000, 576471000, 580392000, 584314000, 588235000, 592157000,
    596078000, 600000000, 603922000, 607843000, 611765000, 615686000, 619608000, 623529000,
    627451000, 631373000, 635294000, 639216000, 643137000, 647059000, 650980000, 654902000,
    658824000, 662745000, 666667000, 670588000, 674510000, 678431000, 682353000, 686275000,
    690196000, 694118000, 698039000, 701961000, 705882000, 709804000, 713726000, 717647000,
    721569000, 725490000, 729412000, 733333000, 737255000, 741176000, 745098000, 749020000,
    752941000, 756863000, 760784000, 764706000, 768627000, 772549000, 776471000, 780392000,
    784314000, 788235000, 792157000, 796078000, 800000000, 803922000, 807843000, 811765000,
    815686000, 819608000, 823529000, 827451000, 831373000, 835294000, 839216000, 843137000,
    847059000, 850980000, 854902000, 858824000, 862745000, 866667000, 870588000, 874510000,
    878431000, 882353000, 886275000, 890196000, 894118000, 898039000, 901961000, 905882000,
    909804000, 913725000, 917647000, 921569000, 925490000, 929412000, 933333000, 937255000,
    941176000, 945098000, 949020000, 952941000, 956863000, 960784000, 964706000, 968627000,
    972549000, 976471000, 980392000, 984314000, 988235000, 992157000, 996078000, 1000000000
  >>

(***************************************************************************)
(* maths.cpp: the gamma look-up tables                                     *)
(***************************************************************************)
\* a float pointer into one of the two static tables
ComputeGammaLUT(sRGB) == IF sRGB THEN "baseLUT_sRGB" ELSE "baseLUT_Linear"

\* lut[i] read through such a pointer (units of 1e-9)
LutAt(lut, i) ==
  IF lut = "baseLUT_sRGB" THEN baseLUT_sRGB[i + 1] ELSE baseLUT_Linear[i + 1]

(***************************************************************************)
(* simd_sse.h: the vector operations the fitter uses                       *)
(***************************************************************************)
\* FloatToInt<false>: _mm_cvttps_epi32(v), one lane
FloatToIntTruncate(p) == TruncDiv(p, PointDen)

\* FloatToInt<true>: _mm_cvttps_epi32(v + 0.5f), one lane; p is the float
\* counted in units of 1/PointDen
FloatToIntRound(p) == TruncDiv(2 * p + PointDen, 2 * PointDen)

\* _mm_packs_epi32: signed saturation to 16 bits
PacksEpi32(v) == IF v > 32767 THEN 32767 ELSE IF v < 0 - 32768 THEN 0 - 32768 ELSE v

\* _mm_packus_epi16: unsigned saturation to 8 bits
PackusEpi16(v) == IF v > 255 THEN 255 ELSE IF v < 0 THEN 0 ELSE v

\* PackBytes(FloatToInt<true>(values * 255)): the four bytes of m_entry[set]
PackBytes(point) ==
  [ch \in 1 .. 4 |-> PackusEpi16(PacksEpi32(FloatToIntRound(point[ch])))]

\* Vec4 operator*: lane-wise product
VecMul(va, vb) == [ch \in 1 .. 4 |-> va[ch] * vb[ch]]

\* HorizontalAdd: the sum of the four lanes
HorizontalAdd(va) == va[1] + va[2] + va[3] + va[4]

\* Dot(left, right) = HorizontalAdd(left * right)
Dot(va, vb) == HorizontalAdd(VecMul(va, vb))

\* LengthSquared(v) = Dot(v, v)
LengthSquared(va) == Dot(va, va)

(***************************************************************************)
(* Inputs of the model                                                     *)
(***************************************************************************)
\* subset colours as bytes
Colours ==
  << <<0, 0, 0, 255>>, <<30, 128, 3, 255>>, <<3, 30, 30, 0>>,
     <<128, 128, 128, 128>> >>

\* m_palette->GetPoints(set) of palette p: 255*v in units of 1/PointDen
PaletteOf(p) ==
  [s \in Sets |->
     [ch \in 1 .. 4 |-> PointDen * Colours[((p + s) % Len(Colours)) + 1][ch]]]

\* channel weights
MetricChoices == {<<1, 1, 1, 1>>, <<3, 1, 2, 0>>}

\* format parameters: the supported ones and some that are not
FormatChoices ==
  {[cb |-> c, ab |-> a, sb |-> 0, ib |-> 2] : c \in {5, 6, 7, 8}, a \in {0, 6, 8}}
  \cup {[cb |-> c, ab |-> a, sb |-> 0, ib |-> 3] : c \in {5, 7}, a \in {0, 6}}
  \cup {[cb |-> 8, ab |-> 8, sb |-> 0, ib |-> 4]}
  \cup {[cb |-> 9, ab |-> 0, sb |-> 0, ib |-> 2], [cb |-> 5, ab |-> 5, sb |-> 0, ib |-> 2],
        [cb |-> 6, ab |-> 0, sb |-> 0, ib |-> 3], [cb |-> 5, ab |-> 8, sb |-> 0, ib |-> 3],
        [cb |-> 7, ab |-> 8, sb |-> 0, ib |-> 4], [cb |-> 8, ab |-> 6, sb |-> 0, ib |-> 4],
        [cb |-> 5, ab |-> 0, sb |-> 0, ib |-> 1], [cb |-> 5, ab |-> 0, sb |-> 0, ib |-> 5],
        [cb |-> 6, ab |-> 0, sb |-> 1, ib |-> 2]}

CmaskChoices == 0 .. 15

\* flags of the constructor
FlagChoices == {{}, {"SRGB_METRIC"}}

\* what a load from a null-derived address gives: a fault, or the bytes
\* that lie there
LowMemChoices == {"unmapped", "mapped"}

\* the byte at a low address of memory mem (read only when it is mapped)
LowByte(mem, addr) == addr % 4

(***************************************************************************)
(* singlepalettefit.cpp: tables and dispatch                               *)
(***************************************************************************)
\* sources[] of SinglePaletteLookup2, SinglePaletteLookup4, SinglePaletteLookup8
SinglePaletteLookup2 == 2
SinglePaletteLookup4 == 4
SinglePaletteLookup8 == 8

\* struct SP_SourceBlock { u8 start; u8 end; u8 error; }
SP_SourceBlock(start, end, error) == [start |-> start, end |-> end, error |-> error]

\* sizeof(SP_SourceBlock)
SizeofSourceBlock == 3

\* the tables sp_lookup_<bits>_<k> of singlepalettelookup.inl: the rows of
\* the target bytes of the model, one SP_SourceBlock for each of the k/2
\* slots of a row; every entry is BestSource(bits, k, slot, target)
sp_lookup_5_4 ==
  (0 :>
     <<SP_SourceBlock(0, 0, 0), SP_SourceBlock(0, 0, 0)>>) @@
  (3 :>
     <<SP_SourceBlock(0, 0, 3), SP_SourceBlock(0, 1, 0)>>) @@
  (30 :>
     <<SP_SourceBlock(4, 4, 3), SP_SourceBlock(0, 11, 0)>>) @@
  (128 :>
     <<SP_SourceBlock(16, 16, 4), SP_SourceBlock(10, 27, 1)>>) @@
  (255 :>
     <<SP_SourceBlock(31, 31, 0), SP_SourceBlock(31, 31, 0)>>)

sp_lookup_6_4 ==
  (0 :>
     <<SP_SourceBlock(0, 0, 0), SP_SourceBlock(0, 0, 0)>>) @@
  (3 :>
     <<SP_SourceBlock(1, 1, 1), SP_SourceBlock(0, 2, 0)>>) @@
  (30 :>
     <<SP_SourceBlock(7, 7, 2), SP_SourceBlock(0, 22, 0)>>) @@
  (128 :>
     <<SP_SourceBlock(32, 32, 2), SP_SourceBlock(24, 47, 0)>>) @@
  (255 :>
     <<SP_SourceBlock(63, 63, 0), SP_SourceBlock(63, 63, 0)>>)

sp_lookup_7_4 ==
  (0 :>
     <<SP_SourceBlock(0, 0, 0), SP_SourceBlock(0, 0, 0)>>) @@
  (3 :>
     <<SP_SourceBlock(1, 1, 1), SP_SourceBlock(0, 4, 0)>>) @@
  (30 :>
     <<SP_SourceBlock(15, 15, 0), SP_SourceBlock(0, 45, 0)>>) @@
  (128 :>
     <<SP_SourceBlock(64, 64, 1), SP_SourceBlock(64, 63, 0)>>) @@
  (255 :>
     <<SP_SourceBlock(127, 127, 0), SP_SourceBlock(127, 127, 0)>>)

sp_lookup_8_4 ==
  (0 :>
     <<SP_SourceBlock(0, 0, 0), SP_SourceBlock(0, 0, 0)>>) @@
  (3 :>
     <<SP_SourceBlock(3, 3, 0), SP_SourceBlock(0, 9, 0)>>) @@
  (30 :>
     <<SP_SourceBlock(30, 30, 0), SP_SourceBlock(0, 90, 0)>>) @@
  (128 :>
     <<SP_SourceBlock(128, 128, 0), SP_SourceBlock(65, 254, 0)>>) @@
  (255 :>
     <<SP_SourceBlock(255, 255, 0), SP_SourceBlock(255, 255, 0)>>)

sp_lookup_5_8 ==
  (0 :>
     <<SP_SourceBlock(0, 0, 0), SP_SourceBlock(0, 0, 0),
       SP_SourceBlock(0, 0, 0), SP_SourceBlock(0, 0, 0)>>) @@
  (3 :>
     <<SP_SourceBlock(0, 0, 3), SP_SourceBlock(0, 3, 0),
       SP_SourceBlock(0, 1, 1), SP_SourceBlock(0, 1, 0)>>) @@
  (30 :>
     <<SP_SourceBlock(4, 4, 3), SP_SourceBlock(3, 8, 0),
       SP_SourceBlock(2, 8, 0), SP_SourceBlock(2, 6, 0)>>) @@
  (128 :>
     <<SP_SourceBlock(16, 16, 4), SP_SourceBlock(14, 25, 0),
       SP_SourceBlock(13, 22, 0), SP_SourceBlock(13, 19, 0)>>) @@
  (255 :>
     <<SP_SourceBlock(31, 31, 0), SP_SourceBlock(31, 31, 0),
       SP_SourceBlock(31, 31, 0), SP_SourceBlock(31, 31, 0)>>)

sp_lookup_6_8 ==
  (0 :>
     <<SP_SourceBlock(0, 0, 0), SP_SourceBlock(0, 0, 0),
       SP_SourceBlock(0, 0, 0), SP_SourceBlock(0, 0, 0)>>) @@
  (3 :>
     <<SP_SourceBlock(1, 1, 1), SP_SourceBlock(0, 5, 0),
       SP_SourceBlock(1, 0, 0), SP_SourceBlock(0, 2, 0)>>) @@
  (30 :>
     <<SP_SourceBlock(7, 7, 2), SP_SourceBlock(1, 46, 0),
       SP_SourceBlock(0, 26, 0), SP_SourceBlock(1, 16, 0)>>) @@
  (128 :>
     <<SP_SourceBlock(32, 32, 2), SP_SourceBlock(30, 42, 0),
       SP_SourceBlock(33, 28, 0), SP_SourceBlock(45, 14, 0)>>) @@
  (255 :>
     <<SP_SourceBlock(63, 63, 0), SP_SourceBlock(63, 63, 0),
       SP_SourceBlock(63, 63, 0), SP_SourceBlock(63, 63, 0)>>)

sp_lookup_7_8 ==
  (0 :>
     <<SP_SourceBlock(0, 0, 0), SP_SourceBlock(0, 0, 0),
       SP_SourceBlock(0, 0, 0), SP_SourceBlock(0, 0, 0)>>) @@
  (3 :>
     <<SP_SourceBlock(1, 1, 1), SP_SourceBlock(0, 10, 0),
       SP_SourceBlock(0, 5, 0), SP_SourceBlock(1, 2, 0)>>) @@
  (30 :>
     <<SP_SourceBlock(15, 15, 0), SP_SourceBlock(7, 63, 0),
       SP_SourceBlock(1, 50, 0), SP_SourceBlock(0, 35, 0)>>) @@
  (128 :>
     <<SP_SourceBlock(64, 64, 1), SP_SourceBlock(64, 61, 0),
       SP_SourceBlock(39, 126, 0), SP_SourceBlock(65, 62, 0)>>) @@
  (255 :>
     <<SP_SourceBlock(127, 127, 0), SP_SourceBlock(127, 127, 0),
       SP_SourceBlock(127, 127, 0), SP_SourceBlock(127, 127, 0)>>)

sp_lookup_8_16 ==
  (0 :>
     <<SP_SourceBlock(0, 0, 0), SP_SourceBlock(0, 0, 0),
       SP_SourceBlock(0, 0, 0), SP_SourceBlock(0, 0, 0),
       SP_SourceBlock(0, 0, 0), SP_SourceBlock(0, 0, 0),
       SP_SourceBlock(0, 0, 0), SP_SourceBlock(0, 0, 0)>>) @@
  (3 :>
     <<SP_SourceBlock(3, 3, 0), SP_SourceBlock(0, 45, 0),
       SP_SourceBlock(1, 16, 0), SP_SourceBlock(0, 15, 0),
       SP_SourceBlock(3, 3, 0), SP_SourceBlock(0, 9, 0),
       SP_SourceBlock(1, 6, 0), SP_SourceBlock(3, 3, 0)>>) @@
  (30 :>
     <<SP_SourceBlock(30, 30, 0), SP_SourceBlock(14, 254, 0),
       SP_SourceBlock(0, 225, 0), SP_SourceBlock(0, 150, 0),
       SP_SourceBlock(2, 107, 0), SP_SourceBlock(0, 90, 0),
       SP_SourceBlock(0, 75, 0), SP_SourceBlock(2, 62, 0)>>) @@
  (128 :>
     <<SP_SourceBlock(128, 128, 0), SP_SourceBlock(119, 254, 0),
       SP_SourceBlock(110, 245, 0), SP_SourceBlock(97, 252, 0),
       SP_SourceBlock(84, 249, 0), SP_SourceBlock(65, 254, 0),
       SP_SourceBlock(44, 254, 0), SP_SourceBlock(23, 248, 0)>>) @@
  (255 :>
     <<SP_SourceBlock(255, 255, 0), SP_SourceBlock(255, 255, 0),
       SP_SourceBlock(255, 255, 0), SP_SourceBlock(255, 255, 0),
       SP_SourceBlock(255, 255, 0), SP_SourceBlock(255, 255, 0),
       SP_SourceBlock(255, 255, 0), SP_SourceBlock(255, 255, 0)>>)

\* the table named lookup holds the least-error source of every row and slot
IsBuilt(lookup, bits, k) ==
  \A t \in DOMAIN lookup, slot \in 0 .. ((k \div 2) - 1) :
    lookup[t][slot + 1] = BestSource(bits, k, slot, t)

\* the macros of the build without FEATURE_SHAREDBITS_TRIALS
sp_lookup_5u1_4_sb_ == "sp_lookup_6_4"
sp_lookup_7u1_4_sb_ == "sp_lookup_8_4"
sp_lookup_4u1_8_sb_ == "sp_lookup_5_8"
sp_lookup_6s1_8_sb_ == "sp_lookup_7_8"
sp_lookup_7u1_16_sb_ == "sp_lookup_8_16"
sp_lookup_5u1_4_ck_ == "sp_lookup_6_4"
sp_lookup_4u1_8_ck_ == "sp_lookup_5_8"

\* the table behind a table pointer
TableOf(lookup) ==
  CASE lookup = "sp_lookup_5_4" -> sp_lookup_5_4
    [] lookup = "sp_lookup_6_4" -> sp_lookup_6_4
    [] lookup = "sp_lookup_7_4" -> sp_lookup_7_4
    [] lookup = "sp_lookup_8_4" -> sp_lookup_8_4
    [] lookup = "sp_lookup_5_8" -> sp_lookup_5_8
    [] lookup = "sp_lookup_6_8" -> sp_lookup_6_8
    [] lookup = "sp_lookup_7_8" -> sp_lookup_7_8
    [] lookup = "sp_lookup_8_16" -> sp_lookup_8_16

\* switch (cb) of the three cases of switch (ib)
ColourLookup(ib, cb) ==
  CASE ib = 2 /\ cb = 5 -> "sp_lookup_5_4"
    [] ib = 2 /\ cb = 6 -> sp_lookup_5u1_4_sb_
    [] ib = 2 /\ cb = 7 -> "sp_lookup_7_4"
    [] ib = 2 /\ cb = 8 -> sp_lookup_7u1_4_sb_
    [] ib = 3 /\ cb = 5 -> sp_lookup_4u1_8_ck_
    [] ib = 3 /\ cb = 7 -> sp_lookup_6s1_8_sb_
    [] ib = 4 /\ cb = 8 -> sp_lookup_7u1_16_sb_
    [] OTHER -> "abort"

\* switch (ab) of the three cases of switch (ib)
AlphaLookup(ib, ab) ==
  CASE ib = 2 /\ ab = 6 -> sp_lookup_5u1_4_ck_
    [] ib = 2 /\ ab = 8 -> "sp_lookup_8_4"
    [] ib = 2 -> "NULL"
    [] ib = 3 /\ ab = 6 -> "sp_lookup_6_8"
    [] ib = 3 -> "NULL"
    [] ib = 4 /\ ab = 8 -> sp_lookup_7u1_16_sb_
    [] OTHER -> "abort"

\* slip: the loop of the Lookup4 overload keeps the bound of Lookup2
LookupSlots_Copied(ib) ==
  CASE ib = 2 -> SinglePaletteLookup2
    [] ib = 3 -> SinglePaletteLookup2
    [] ib = 4 -> SinglePaletteLookup8

\* the overload the dispatch calls: the number of sources of its tables,
\* which is the bound of its slot loop
LookupSlots(ib) ==
  CASE ib = 2 -> SinglePaletteLookup2
    [] ib = 3 -> SinglePaletteLookup4
    [] ib = 4 -> SinglePaletteLookup8

\* slip: the mask is tested for being non-zero, not for the channel's bit
ChannelEnabled_AnyBit(cmask, ch) == cmask # 0

\* cmask & (1 << channel)
ChannelEnabled(cmask, ch) == (cmask \div Pow2(ch)) % 2 = 1

\* sources[channel] of an iteration that skipped the channel
NullSource == [ptr |-> FALSE, start |-> 0, end |-> 0, error |-> 0]

\* lookup[target].sources + index and the fields read through it; through a
\* null table pointer the address is target * sizeof(table row) + index *
\* sizeof(SP_SourceBlock) and the fields are what lies there
LoadSource(lookup, slots, target, index, mem) ==
  IF lookup = "NULL"
  THEN LET addr == target * slots * SizeofSourceBlock + index * SizeofSourceBlock
       IN  [ptr |-> addr # 0, start |-> LowByte(mem, addr),
            end |-> LowByte(mem, addr + 1), error |-> LowByte(mem, addr + 2)]
  ELSE LET src == TableOf(lookup)[target][index + 1]
       IN  [ptr |-> TRUE, start |-> src.start, end |-> src.end,
            error |-> src.error]

\* sources[] after the channel loop of one slot
SlotSources(lookups, slots, entry, cmask, index, mem) ==
  [ch \in Channels |->
     IF ChannelEnabled(cmask, ch)
     THEN LoadSource(lookups[ch + 1], slots, entry[ch + 1], index, mem)
     ELSE NullSource]

\* cerror after the channel loop of one slot (units of 1e-4)
SlotCerror(srcs, cmask, lut) ==
  [ch \in 1 .. 4 |->
     IF ChannelEnabled(cmask, ch - 1)
     THEN LutAt(lut, srcs[ch - 1].error) \div LutDen
     ELSE 0]

\* error = LengthSquared(metric * cerror)
SlotError(metric, cerror) == LengthSquared(VecMul(metric, cerror))

\* slip: a slot as good as the best one replaces it
Improves_OrEqual(error, besterror) == error <= besterror

\* if (error < besterror)
Improves(error, besterror) == error < besterror

\* slip: the early-out tests the wrong sign and leaves at the first improvement
EarlyOut_NotNegative(besterror) == ~(besterror < 0)

\* slip: the early-out can never be taken
EarlyOut_Negative(besterror) == besterror < 0

\* if (!(besterror > Scr4(0.0f)))
EarlyOut(besterror) == ~(besterror > 0)

\* the vQuantizer of a format: gridinv.A() and the bits LookUpLattice
\* dequantises with
vQuantizer(cb, ab) == [gridinvA |-> Pow2(ab), cbits |-> cb, abits |-> ab]

\* q.LookUpLattice(r, g, b, a)
LookUpLattice(q, r, g, b, a) ==
  <<Dequant(q.cbits, r), Dequant(q.cbits, g), Dequant(q.cbits, b),
    Dequant(q.abits, a)>>

\* the endpoint an improving slot records: field is "start" or "end"
SlotEndpoint(q, srcs, AxFF, field) ==
  LookUpLattice(q,
    IF srcs[0].ptr THEN srcs[0][field] ELSE 0,
    IF srcs[1].ptr THEN srcs[1][field] ELSE 0,
    IF srcs[2].ptr THEN srcs[2][field] ELSE 0,
    IF srcs[3].ptr THEN srcs[3][field] ELSE AxFF)

(***************************************************************************)
(* State                                                                   *)
(***************************************************************************)
VARIABLES
  lowmem,     \* what the machine gives for a load from a null-derived address
  objs,       \* the fitter objects that exist
  m_palette,  \* per fitter: the points of each subset
  m_flags,    \* per fitter: the flags of the constructor
  m_start,    \* per fitter and subset: start endpoint
  m_end,      \* per fitter and subset: end endpoint
  m_entry,    \* per fitter and subset: the packed bytes of the colour
  m_index,    \* per fitter: the index all pixels share
  pc,         \* per fitter: "idle", "loop", "returned", "aborted", "fault"
  call,       \* per fitter: arguments and locals of the running call
  lutq,       \* the last ComputeGammaLUT(sRGB)[i] read by a client
  fnq         \* the last call of a function of maths.cpp or simd_sse.h by a client

vars ==
  <<lowmem, objs, m_palette, m_flags, m_start, m_end, m_entry, m_index, pc,
    call, lutq, fnq>>

fitvars == <<lowmem, objs, m_palette, m_flags, m_start, m_end, m_entry,
             m_index, pc, call>>

\* no function has been called by the client yet
NoQuery == [fn |-> "none"]

\* the frame of a fitter that is not in a call
NoCall ==
  [set |-> 0, metric |-> <<0, 0, 0, 0>>, fmt |-> [cb |-> 0, ab |-> 0, sb |-> 0, ib |-> 0],
   cmask |-> 0, q |-> vQuantizer(0, 0), lookups |-> <<"NULL", "NULL", "NULL", "NULL">>,
   slots |-> 0, eLUT |-> "none", AxFF |-> 0, index |-> 0, besterror |-> 0,
   cerror |-> <<0, 0, 0, 0>>, ret |-> 0,
   evaluated |-> {}, reads |-> {}, wrote |-> {}, nullread |-> FALSE]

\* construction: SinglePaletteFit(palette, flags, swap, shared) stores the
\* palette and the flags; stale[f] is what the endpoint members hold
InitObjs(active, stale) ==
  /\ lowmem \in LowMemChoices
  /\ objs = active
  /\ \E p \in 0 .. (NumPalettes - 1) : m_palette = [f \in Fitters |-> PaletteOf(p)]
  /\ \E fl \in FlagChoices : m_flags = [f \in Fitters |-> fl]
  /\ m_start = [f \in Fitters |-> [s \in Sets |-> [ch \in 1 .. 4 |-> stale[f]]]]
  /\ m_end = [f \in Fitters |-> [s \in Sets |-> [ch \in 1 .. 4 |-> stale[f]]]]
  /\ m_entry = [f \in Fitters |-> [s \in Sets |-> [ch \in 1 .. 4 |-> stale[f]]]]
  /\ m_index = [f \in Fitters |-> stale[f]]
  /\ pc = [f \in Fitters |-> "idle"]
  /\ call = [f \in Fitters |-> NoCall]
  /\ lutq = [sRGB |-> FALSE, i |-> 0, val |-> 0]
  /\ fnq = NoQuery

\* one fitter
Init == InitObjs({1}, [f \in Fitters |-> 128])

(***************************************************************************)
(* ComputeEndPoints(set, metric, q, cb, ab, sb, ib, cmask)                 *)
(***************************************************************************)
\* where the dispatch ends
DispatchPc(fmt) ==
  IF fmt.ib \notin {2, 3, 4} THEN "returned"
  ELSE IF ColourLookup(fmt.ib, fmt.cb) = "abort" THEN "aborted"
  ELSE IF AlphaLookup(fmt.ib, fmt.ab) = "abort" THEN "aborted"
  ELSE "loop"

\* slip: besterror starts from zero, so that no slot improves on it
DispatchFrame_BestFromZero(s, metric, fmt, cmask) ==
  LET to == DispatchPc(fmt)
      q  == vQuantizer(fmt.cb, fmt.ab)
      base == [NoCall EXCEPT !.set = s, !.metric = metric, !.fmt = fmt,
                             !.cmask = cmask, !.q = q]
  IN  IF to = "returned" THEN [base EXCEPT !.ret = INT_MAX]
      ELSE IF to = "aborted" THEN base
      ELSE [base EXCEPT
              !.lookups = <<ColourLookup(fmt.ib, fmt.cb), ColourLookup(fmt.ib, fmt.cb),
                            ColourLookup(fmt.ib, fmt.cb), AlphaLookup(fmt.ib, fmt.ab)>>,
              !.slots = LookupSlots(fmt.ib),
              !.besterror = 0,
              !.eLUT = ComputeGammaLUT(FALSE),
              !.AxFF = q.gridinvA - 1]

\* the frame after the dispatch and, for a supported format, after the
\* statements of the overload before its slot loop
DispatchFrame(s, metric, fmt, cmask) ==
  LET to == DispatchPc(fmt)
      q  == vQuantizer(fmt.cb, fmt.ab)
      base == [NoCall EXCEPT !.set = s, !.metric = metric, !.fmt = fmt,
                             !.cmask = cmask, !.q = q]
  IN  IF to = "returned" THEN [base EXCEPT !.ret = INT_MAX]
      ELSE IF to = "aborted" THEN base
      ELSE [base EXCEPT
              !.lookups = <<ColourLookup(fmt.ib, fmt.cb), ColourLookup(fmt.ib, fmt.cb),
                            ColourLookup(fmt.ib, fmt.cb), AlphaLookup(fmt.ib, fmt.ab)>>,
              !.slots = LookupSlots(fmt.ib),
              !.besterror = FLT_MAX,
              !.eLUT = ComputeGammaLUT(FALSE),
              !.AxFF = q.gridinvA - 1]

\* slip: the colour is packed into m_entry before the dispatch on ib
Call_PacksBeforeDispatch(f, s, metric, fmt, cmask) ==
  /\ f \in objs
  /\ pc[f] = "idle"
  /\ pc' = [pc EXCEPT ![f] = DispatchPc(fmt)]
  /\ call' = [call EXCEPT ![f] = DispatchFrame(s, metric, fmt, cmask)]
  /\ m_entry' = [m_entry EXCEPT ![f][s] = PackBytes(m_palette[f][s])]
  /\ UNCHANGED <<lowmem, objs, m_palette, m_flags, m_start, m_end, m_index, lutq, fnq>>

\* slip: the frame of the call kept in storage that all fitters share
Call_SharedFrame(f, s, metric, fmt, cmask) ==
  /\ f \in objs
  /\ pc[f] = "idle"
  /\ pc' = [pc EXCEPT ![f] = DispatchPc(fmt)]
  /\ call' = [g \in Fitters |-> DispatchFrame(s, metric, fmt, cmask)]
  /\ m_entry' = IF DispatchPc(fmt) = "loop"
                THEN [m_entry EXCEPT ![f][s] = PackBytes(m_palette[f][s])]
                ELSE m_entry
  /\ UNCHANGED <<lowmem, objs, m_palette, m_flags, m_start, m_end, m_index, lutq, fnq>>

\* the call up to the slot loop
Call(f, s, metric, fmt, cmask) ==
  /\ f \in objs
  /\ pc[f] = "idle"
  /\ pc' = [pc EXCEPT ![f] = DispatchPc(fmt)]
  /\ call' = [call EXCEPT ![f] = DispatchFrame(s, metric, fmt, cmask)]
  /\ m_entry' = IF DispatchPc(fmt) = "loop"
                THEN [m_entry EXCEPT ![f][s] = PackBytes(m_palette[f][s])]
                ELSE m_entry
  /\ UNCHANGED <<lowmem, objs, m_palette, m_flags, m_start, m_end, m_index, lutq, fnq>>

\* one iteration of the slot loop, with the return that ends the call when
\* the iteration is the last one or reaches error zero
EvalSlot(f) ==
  /\ f \in objs
  /\ pc[f] = "loop"
  /\ LET c      == call[f]
         entry  == m_entry[f][c.set]
         en     == {ch \in Channels : ChannelEnabled(c.cmask, ch)}
         viaNull == {ch \in en : c.lookups[ch + 1] = "NULL"}
         srcs   == SlotSources(c.lookups, c.slots, entry, c.cmask, c.index, lowmem)
         cerr   == SlotCerror(srcs, c.cmask, c.eLUT)
         error  == SlotError(c.metric, cerr)
         better == Improves(error, c.besterror)
         best   == IF better THEN error ELSE c.besterror
         stop   == (better /\ EarlyOut(best)) \/ c.index + 1 >= c.slots
         seen   == [c EXCEPT !.evaluated = @ \cup {c.index},
                             !.reads = @ \cup {<<ch, c.index>> : ch \in en},
                             !.nullread = @ \/ viaNull # {}]
     IN  IF viaNull # {} /\ lowmem = "unmapped"
         THEN /\ pc' = [pc EXCEPT ![f] = "fault"]
              /\ call' = [call EXCEPT ![f] =
                            [seen EXCEPT !.reads =
                               c.reads \cup {<<ch, c.index>> : ch \in {e \in en :
                                               \A n \in viaNull : e <= n}}]]
              /\ UNCHANGED <<m_start, m_end, m_index>>
         ELSE /\ pc' = [pc EXCEPT ![f] = IF stop THEN "returned" ELSE "loop"]
              /\ call' = [call EXCEPT ![f] =
                            [seen EXCEPT !.cerror = cerr,
                                         !.besterror = best,
                                         !.wrote = IF better THEN @ \cup {c.index} ELSE @,
                                         !.index = IF stop THEN c.index ELSE c.index + 1,
                                         !.ret = IF stop THEN best ELSE 0]]
              /\ m_start' = IF better
                            THEN [m_start EXCEPT ![f][c.set] =
                                    SlotEndpoint(c.q, srcs, c.AxFF, "start")]
                            ELSE m_start
              /\ m_end' = IF better
                          THEN [m_end EXCEPT ![f][c.set] =
                                  SlotEndpoint(c.q, srcs, c.AxFF, "end")]
                          ELSE m_end
              /\ m_index' = IF better THEN [m_index EXCEPT ![f] = c.index]
                            ELSE m_index
  /\ UNCHANGED <<lowmem, objs, m_palette, m_flags, m_entry, lutq, fnq>>

\* a client calls an idle fitter
Calls(f) ==
  /\ pc[f] = "idle"
  /\ \E s \in Sets, metric \in MetricChoices, fmt \in FormatChoices,
        cmask \in CmaskChoices : Call(f, s, metric, fmt, cmask)

Next ==
  \/ \E f \in objs : Calls(f)
  \/ \E f \in objs : EvalSlot(f)

Spec == Init /\ [][Next]_vars

(***************************************************************************)
(* Two fitters given the same call                                         *)
(***************************************************************************)
\* two fitters on the same palette whose members hold different values
InitTwin == InitObjs({1, 2}, [f \in Fitters |-> IF f = 1 THEN 0 ELSE 128])

\* slip: the overloads work on the m_entry of an earlier call
TwinCall_StaleEntry(s, metric, fmt, cmask) ==
  /\ pc' = [f \in Fitters |-> IF f \in objs THEN DispatchPc(fmt) ELSE pc[f]]
  /\ call' = [f \in Fitters |->
                IF f \in objs THEN DispatchFrame(s, metric, fmt, cmask) ELSE call[f]]
  /\ UNCHANGED <<lowmem, objs, m_palette, m_flags, m_start, m_end, m_entry, m_index,
                 lutq, fnq>>

\* the same ComputeEndPoints call on every fitter
TwinCall(s, metric, fmt, cmask) ==
  /\ pc' = [f \in Fitters |-> IF f \in objs THEN DispatchPc(fmt) ELSE pc[f]]
  /\ call' = [f \in Fitters |->
                IF f \in objs THEN DispatchFrame(s, metric, fmt, cmask) ELSE call[f]]
  /\ m_entry' = [f \in Fitters |->
                   IF f \in objs /\ DispatchPc(fmt) = "loop"
                   THEN [m_entry[f] EXCEPT ![s] = PackBytes(m_palette[f][s])]
                   ELSE m_entry[f]]
  /\ UNCHANGED <<lowmem, objs, m_palette, m_flags, m_start, m_end, m_index, lutq, fnq>>

TwinCalls ==
  /\ \A f \in objs : pc[f] = "idle"
  /\ \E s \in Sets, metric \in MetricChoices, fmt \in FormatChoices,
        cmask \in CmaskChoices : TwinCall(s, metric, fmt, cmask)

NextTwin ==
  \/ TwinCalls
  \/ \E f \in objs : EvalSlot(f)

SpecTwin == InitTwin /\ [][NextTwin]_vars

(***************************************************************************)
(* A client of the gamma tables                                            *)
(***************************************************************************)
\* ComputeGammaLUT(sRGB)[i]
GammaQuery ==
  /\ \E sRGB \in BOOLEAN, i \in 0 .. 255 :
       lutq' = [sRGB |-> sRGB, i |-> i, val |-> LutAt(ComputeGammaLUT(sRGB), i)]
  /\ UNCHANGED <<fitvars, fnq>>

SpecLUT == Init /\ [][GammaQuery]_vars

(***************************************************************************)
(* Properties                                                              *)
(***************************************************************************)
\* the call of fitter f went through the slot loop of an overload
InLoopCall(f) == f \in objs /\ pc[f] \in {"loop", "returned", "fault"} /\ call[f].slots > 0

\* the call of fitter f returned from the slot loop of an overload
LoopReturned(f) == f \in objs /\ pc[f] = "returned" /\ call[f].slots > 0

\* bit ch of the cmask of the call of f
MaskBit(f, ch) == (call[f].cmask \div Pow2(ch)) % 2 = 1

\* the error byte of channel ch at slot j in the table the call of f uses
TableError(f, ch, j) ==
  LoadSource(call[f].lookups[ch + 1], call[f].slots,
             m_entry[f][call[f].set][ch + 1], j, lowmem).error

\* (metric_c * eLUT[table error of channel ch at slot j])^2
ChannelTerm(f, ch, j) ==
  LET w == call[f].metric[ch + 1] * (LutAt(call[f].eLUT, TableError(f, ch, j)) \div LutDen)
  IN  w * w

\* the sum of the terms of the enabled channels at slot j
SlotSum(f, j) ==
  LET term(ch) == IF MaskBit(f, ch) THEN ChannelTerm(f, ch, j) ELSE 0
  IN  term(0) + term(1) + term(2) + term(3)

\* C1: the error a table-driven call returns is the minimum over all slots
\* 0..K-1 of its loop of the sum, over the channels enabled in cmask, of
\* (metric_c * eLUT[table error])^2; leaving early never returns more than a
\* full scan would
C1_ReturnsMinOverAllSlots ==
  \A f \in objs :
    LoopReturned(f) =>
      /\ \E j \in 0 .. (call[f].slots - 1) : call[f].ret = SlotSum(f, j)
      /\ \A j \in 0 .. (call[f].slots - 1) : call[f].ret <= SlotSum(f, j)

\* a call returned a positive error that slot 0 does not give
C1_Witness ==
  \E f \in objs :
    /\ LoopReturned(f)
    /\ call[f].ret > 0
    /\ m_index[f] >= 1
    /\ SlotSum(f, 0) > call[f].ret

\* C2 as stated: with ib index bits a call that is not stopped by the
\* early-out evaluates every slot of [0, 2^ib)
C2_EvaluatesWholeCodebook ==
  \A f \in objs :
    LoopReturned(f) /\ call[f].ret > 0 =>
      call[f].evaluated = 0 .. (Pow2(call[f].fmt.ib) - 1)

\* C2 amended: with ib index bits a call that is not stopped by the
\* early-out evaluates every slot of [0, 2^(ib-1)), and a call the early-out
\* stops evaluates the slots up to the one that stopped it
C2_EvaluatesHalfCodebook ==
  \A f \in objs :
    LoopReturned(f) =>
      IF call[f].ret > 0
      THEN call[f].evaluated = 0 .. (Pow2(call[f].fmt.ib - 1) - 1)
      ELSE call[f].evaluated = 0 .. call[f].index

\* a call with three index bits returned after its four slots
C2_Witness ==
  \E f \in objs :
    /\ LoopReturned(f)
    /\ call[f].fmt.ib = 3
    /\ call[f].ret > 0
    /\ call[f].evaluated = 0 .. 3

\* C3: once a slot gives a best error that is not above zero the call
\* returns: the loop never runs on with such a best error, no entry of a
\* later slot has been read, and m_start, m_end and m_index hold what that
\* slot wrote
C3_EarlyOutReturnsAtOnce ==
  \A f \in objs :
    /\ (pc[f] = "loop" => call[f].besterror > 0)
    /\ (LoopReturned(f) /\ ~(call[f].ret > 0) =>
          LET z == call[f].index
              srcs == SlotSources(call[f].lookups, call[f].slots,
                                  m_entry[f][call[f].set], call[f].cmask, z, lowmem)
          IN  /\ \A j \in 0 .. (z - 1) : SlotSum(f, j) > 0
              /\ call[f].evaluated = 0 .. z
              /\ \A r \in call[f].reads : r[2] <= z
              /\ z \in call[f].wrote
              /\ \A w \in call[f].wrote : w <= z
              /\ m_index[f] = z
              /\ m_start[f][call[f].set] = SlotEndpoint(call[f].q, srcs, call[f].AxFF, "start")
              /\ m_end[f][call[f].set] = SlotEndpoint(call[f].q, srcs, call[f].AxFF, "end"))

\* a call left at a slot that is neither the first nor the last of its loop
C3_Witness ==
  \E f \in objs :
    /\ LoopReturned(f)
    /\ call[f].ret = 0
    /\ call[f].index >= 1
    /\ call[f].index + 1 < call[f].slots

\* C4: a channel whose cmask bit is clear adds zero to the error of every
\* slot and its table is not read, whatever the table is (also when it is
\* the null table)
C4_DisabledChannelIgnored ==
  \A f \in objs :
    InLoopCall(f) =>
      /\ \A ch \in Channels :
           ~MaskBit(f, ch) =>
             /\ call[f].cerror[ch + 1] = 0
             /\ \A r \in call[f].reads : r[1] # ch
      /\ ((\A ch \in Channels : call[f].lookups[ch + 1] = "NULL" => ~MaskBit(f, ch))
            => ~call[f].nullread /\ pc[f] # "fault")
      /\ (pc[f] = "returned" =>
            \E j \in call[f].evaluated : call[f].ret = SlotSum(f, j))

\* a call returned with a disabled channel whose table error and weight
\* are not zero at the slot it kept
C4_Witness ==
  \E f \in objs, ch \in Channels :
    /\ LoopReturned(f)
    /\ ~MaskBit(f, ch)
    /\ call[f].cmask # 0
    /\ call[f].lookups[ch + 1] # "NULL"
    /\ call[f].metric[ch + 1] > 0
    /\ TableError(f, ch, m_index[f]) > 0

\* C5 as stated: when the dispatch chose the null alpha table the call
\* never reads through it, whatever cmask is, and the alpha of the endpoints
\* it writes is the fixed gridinv.A() - 1
C5_NullAlphaIsFixedEndpoint ==
  \A f \in objs :
    InLoopCall(f) /\ call[f].lookups[4] = "NULL" =>
      /\ ~call[f].nullread
      /\ pc[f] # "fault"
      /\ (call[f].wrote # {} =>
            /\ m_start[f][call[f].set][4] = Dequant(call[f].q.abits, call[f].AxFF)
            /\ m_end[f][call[f].set][4] = Dequant(call[f].q.abits, call[f].AxFF))

\* the codebook of k entries between endpoints of the given bits holds the
\* byte t exactly at entry j; a channel without a table is the fixed 255
Representable(bits, k, j, t) ==
  IF bits = 0 THEN t = 255 ELSE Reaches(bits, k, j, t, 0)

\* the bits of the endpoints of channel ch in the call of f
ChannelBits(f, ch) ==
  IF call[f].lookups[ch + 1] = "NULL" THEN 0
  ELSE IF ch = 3 THEN call[f].fmt.ab ELSE call[f].fmt.cb

\* some entry of the codebook is the colour in every enabled channel
ColourRepresentable(f) ==
  \E j \in 0 .. (Pow2(call[f].fmt.ib) - 1) :
    \A ch \in Channels :
      MaskBit(f, ch) =>
        Representable(ChannelBits(f, ch), Pow2(call[f].fmt.ib), j,
                      m_entry[f][call[f].set][ch + 1])

\* C6 as stated: a call on a colour that the codebook of the format holds
\* exactly in every enabled channel returns, and returns error zero
C6_RepresentableColourHasNoError ==
  \A f \in objs :
    (InLoopCall(f) /\ pc[f] # "loop") =>
      (ColourRepresentable(f) => pc[f] = "returned" /\ call[f].ret = 0)

\* C7 as stated: the call turns the table errors into floats through the
\* sRGB table when the fitter was built with SRGB_METRIC and through the
\* linear table otherwise
C7_LutFollowsFlag ==
  \A f \in objs :
    InLoopCall(f) =>
      call[f].eLUT = IF "SRGB_METRIC" \in m_flags[f] THEN "baseLUT_sRGB"
                     ELSE "baseLUT_Linear"

\* ((i/255 + 0.055)/1.055)^2.4 for i = 0..255 in units of 1e-9, rounded to
\* the six significant digits of the literals of maths.cpp
IEC_Power ==
  <<
    833805, 983677, 1148190, 1327720, 1522640, 1733310, 1960070, 2203250,
    2463180, 2740170, 3034520, 3346540, 3676510, 4024720, 4391440, 4776950,
    5181520, 5605390, 6048830, 6512090, 6995410, 7499030, 8023190, 8568130,
    9134060, 9721220, 10329800, 10960100, 11612200, 12286500, 12983000, 13702100,
    14443800, 15208500, 15996300, 16807400, 17642000, 18500200, 19382400, 20288600,
    21219000, 22173900, 23153400, 24157600, 25186900, 26241200, 27320900, 28426000,
    29556800, 30713400, 31896000, 33104800, 34339800, 35601300, 36889500, 38204400,
    39546200, 40915200, 42311400, 43735000, 45186200, 46665100, 48171800, 49706600,
    51269500, 52860600, 54480300, 56128500, 57805400, 59511200, 61246100, 63010000,
    64803300, 66625900, 68478200, 70360100, 72271900, 74213600, 76185400, 78187400,
    80219800, 82282700, 84376200, 86500500, 88655600, 90841700, 93059000, 95307500,
    97587300, 99898700, 102242000, 104616000, 107023000, 109462000, 111932000, 114435000,
    116971000, 119538000, 122139000, 124772000, 127438000, 130136000, 132868000, 135633000,
    138432000, 141263000, 144128000, 147027000, 149960000, 152926000, 155926000, 158961000,
    162029000, 165132000, 168269000, 171441000, 174647000, 177888000, 181164000, 184475000,
    187821000, 191202000, 194618000, 198069000, 201556000, 205079000, 208637000, 212231000,
    215861000, 219526000, 223228000, 226966000, 230740000, 234551000, 238398000, 242281000,
    246201000, 250158000, 254152000, 258183000, 262251000, 266356000, 270498000, 274677000,
    278894000, 283149000, 287441000, 291771000, 296138000, 300544000, 304987000, 309469000,
    313989000, 318547000, 323143000, 327778000, 332452000, 337164000, 341914000, 346704000,
    351533000, 356400000, 361307000, 366253000, 371238000, 376262000, 381326000, 386429000,
    391572000, 396755000, 401978000, 407240000, 412543000, 417885000, 423268000, 428690000,
    434154000, 439657000, 445201000, 450786000, 456411000, 462077000, 467784000, 473531000,
    479320000, 485150000, 491021000, 496933000, 502886000, 508881000, 514918000, 520996000,
    527115000, 533276000, 539479000, 545724000, 552011000, 558340000, 564712000, 571125000,
    577580000, 584078000, 590619000, 597202000, 603827000, 610496000, 617207000, 623960000,
    630757000, 637597000, 644480000, 651406000, 658375000, 665387000, 672443000, 679542000,
    686685000, 693872000, 701102000, 708376000, 715694000, 723055000, 730461000, 737910000,
    745404000, 752942000, 760525000, 768151000, 775822000, 783538000, 791298000, 799103000,
    806952000, 814847000, 822786000, 830770000, 838799000, 846873000, 854993000, 863157000,
    871367000, 879622000, 887923000, 896269000, 904661000, 913099000, 921582000, 930111000,
    938686000, 947307000, 955973000, 964686000, 973445000, 982251000, 991102000, 1000000000
  >>

\* (i/255)/12.92 = 10 i / 32946 in units of 1e-9, by long division
IEC_Linear(i) ==
  ((i * 100000000) \div 32946) * 100 + (((i * 100000000) % 32946) * 100) \div 32946

\* the IEC 61966-2-1 value of i/255: i/255 <= 0.04045 is 100000 i <= 1031475
IEC_sRGB(i) == IF 100000 * i <= 1031475 THEN IEC_Linear(i) ELSE IEC_Power[i + 1]

\* two floats agree to the precision of a six-digit literal
SameLiteral(a, b) == Abs(a - b) <= (b \div 100000) + 1

\* C8 as stated: every entry i of the table of ComputeGammaLUT(true) is the
\* IEC 61966-2-1 value of i/255, with the break at 0.04045
C8_SRGBTableIsIEC ==
  lutq.sRGB => SameLiteral(lutq.val, IEC_sRGB(lutq.i))

\* C9: two fitters whose m_start, m_end, m_entry and m_index differed before
\* the same table-driven call agree after it on the returned error,
\* m_start[set], m_end[set], m_entry[set] and m_index
C9_TwinsAgree ==
  (pc[1] = "returned" /\ pc[2] = "returned") =>
    /\ call[1].ret = call[2].ret
    /\ (call[1].slots > 0 =>
          /\ m_start[1][call[1].set] = m_start[2][call[2].set]
          /\ m_end[1][call[1].set] = m_end[2][call[2].set]
          /\ m_entry[1][call[1].set] = m_entry[2][call[2].set]
          /\ m_index[1] = m_index[2])

\* both fitters returned from a call that kept a slot after the first, and
\* the subset the call did not touch still differs between them
C9_Witness ==
  /\ LoopReturned(1) /\ LoopReturned(2)
  /\ call[1].ret > 0
  /\ m_index[1] >= 1
  /\ \E s \in Sets : m_start[1][s] # m_start[2][s]

\* C10 as stated: no per-block call ends in abort() or returns the failure
\* value Scr4(INT_MAX) because of its format parameters
C10_NoPerBlockRejection ==
  \A f \in objs :
    /\ pc[f] # "aborted"
    /\ ~(pc[f] = "returned" /\ call[f].slots = 0 /\ call[f].ret = INT_MAX)

(***************************************************************************)
(* maths.cpp: the principal component of a covariance matrix               *)
(*                                                                         *)
(* Numbers: an entry of a Sym3x3 is an integer count of 1/16; an           *)
(* eigenvalue is a count of 1/48 (a third of that, for the c2/3 of the     *)
(* closed forms); a component of a returned eigenvector is a count of      *)
(* 1/2304 (a product of two counts of 1/48); the discriminant Q is a count *)
(* of 1/(2916 * 16^6), which is FLT_EPSILON / 5832.                        *)
(***************************************************************************)
\* FLT_EPSILON = 2^-23 in the units of Q
FLT_EPSILON == 5832

\* 1.0f in the units of an eigenvector component
VecOne == 2304

\* Sym3x3: the upper triangle, smatrix[0..5] at positions 1..6
Sym3x3(xx, xy, xz, yy, yz, zz) == <<xx, xy, xz, yy, yz, zz>>

\* Vec3(x, y, z)
Vec3(vx, vy, vz) == <<vx, vy, vz>>

\* the matrices a client passes: the diagonal ones of a few variances and
\* some with covariances
MatrixChoices ==
  {Sym3x3(xx, 0, 0, yy, 0, zz) : xx \in {0, 1, 2, 4}, yy \in {0, 1, 2, 4},
                                 zz \in {0, 1, 2, 4}}
  \cup {Sym3x3(2, 1, 0, 2, 0, 0), Sym3x3(2, 1, 1, 2, 1, 2), Sym3x3(1, 1, 1, 1, 1, 1),
        Sym3x3(0, 1, 0, 0, 0, 0), Sym3x3(3, 1, 0, 3, 0, 2)}

\* c0, c1, c2: the coefficients of the characteristic cubic (16^3, 16^2 and
\* 16 times the floats)
CubicC0(sm) ==
  sm[1] * sm[4] * sm[6] + 2 * sm[2] * sm[3] * sm[5] - sm[1] * sm[5] * sm[5]
  - sm[4] * sm[3] * sm[3] - sm[6] * sm[2] * sm[2]

CubicC1(sm) ==
  sm[1] * sm[4] + sm[1] * sm[6] + sm[4] * sm[6]
  - sm[2] * sm[2] - sm[3] * sm[3] - sm[5] * sm[5]

CubicC2(sm) == sm[1] + sm[4] + sm[6]

\* a = c1 - (1/3) c2 c2, times 3 * 16^2
QuadraticA(sm) == 3 * CubicC1(sm) - CubicC2(sm) * CubicC2(sm)

\* b = (-2/27) c2 c2 c2 + (1/3) c1 c2 - c0, times 27 * 16^3
QuadraticB(sm) ==
  9 * CubicC1(sm) * CubicC2(sm) - 2 * CubicC2(sm) * CubicC2(sm) * CubicC2(sm)
  - 27 * CubicC0(sm)

\* what the rounding of the float operations adds to Q: nothing when every
\* operand is zero, else up to a few FLT_EPSILON either way
RoundingChoices(sm) ==
  IF sm = Sym3x3(0, 0, 0, 0, 0, 0) THEN {0}
  ELSE {0 - 2 * FLT_EPSILON, 0 - FLT_EPSILON, 0, FLT_EPSILON, 2 * FLT_EPSILON}

\* Q = 0.25 b b + (1/27) a a a as the floats give it
RootCountCheck(sm, rnd) ==
  QuadraticB(sm) * QuadraticB(sm)
  + 4 * QuadraticA(sm) * QuadraticA(sm) * QuadraticA(sm) + rnd

\* slip: the band is tested against zero on the upper side
Multiplicity_ZeroAbove(Q) ==
  IF 0 < Q THEN "one" ELSE IF Q < 0 - FLT_EPSILON THEN "three" ELSE "two"

\* the branch of "test the multiplicity"
Multiplicity(Q) ==
  IF FLT_EPSILON < Q THEN "one"
  ELSE IF Q < 0 - FLT_EPSILON THEN "three"
  ELSE "two"

\* the index (1..6) the "find the largest component" loop ends with: the
\* first entry of greatest absolute value
LargestComponent(u) ==
  CHOOSE mi \in 1 .. 6 :
    /\ \A i \in 1 .. 6 : Abs(u[i]) <= Abs(u[mi])
    /\ \A i \in 1 .. (mi - 1) : Abs(u[i]) < Abs(u[mi])

\* M = smatrix - evalue I
ShiftedMatrix(sm, evalue) ==
  Sym3x3(sm[1] - evalue, sm[2], sm[3], sm[4] - evalue, sm[5], sm[6] - evalue)

\* U with the sign of the xy cofactor lost
Adjugate_MinorForCofactor(m) ==
  <<m[4] * m[6] - m[5] * m[5],
    m[2] * m[6] - m[3] * m[5],
    m[2] * m[5] - m[3] * m[4],
    m[1] * m[6] - m[3] * m[3],
    m[2] * m[3] - m[5] * m[1],
    m[1] * m[4] - m[2] * m[2]>>

\* U, the adjugate of the symmetric M
Adjugate(m) ==
  Sym3x3(m[4] * m[6] - m[5] * m[5],
         m[3] * m[5] - m[2] * m[6],
         m[2] * m[5] - m[3] * m[4],
         m[1] * m[6] - m[3] * m[3],
         m[2] * m[3] - m[5] * m[1],
         m[1] * m[4] - m[2] * m[2])

\* the switch (mi) of GetMultiplicity1Evector on U
\* the switch without its `case 3`: the middle diagonal element falls to default
Multiplicity1Column_NoCase3(u, mi) ==
  IF mi = 1 THEN Vec3(u[1], u[2], u[3])
  ELSE IF mi = 2 THEN Vec3(u[2], u[4], u[5])
  ELSE Vec3(u[3], u[5], u[6])

Multiplicity1Column(u, mi) ==
  IF mi = 1 THEN Vec3(u[1], u[2], u[3])
  ELSE IF mi = 2 \/ mi = 4 THEN Vec3(u[2], u[4], u[5])
  ELSE Vec3(u[3], u[5], u[6])

\* GetMultiplicity1Evector(smatrix, evalue)
GetMultiplicity1Evector(sm, evalue) ==
  LET u == Adjugate(ShiftedMatrix(sm, evalue))
  IN  Multiplicity1Column(u, LargestComponent(u))

\* the switch without its `case 2`: the xz element falls to the next case
GetMultiplicity2Evector_NoCase2(sm, evalue) ==
  LET m  == ShiftedMatrix(sm, evalue)
      mi == LargestComponent(m)
  IN  IF mi = 1 \/ mi = 2 THEN Vec3(0 - m[2], m[1], 0)
      ELSE IF mi = 3 \/ mi = 4 \/ mi = 5 THEN Vec3(0, 0 - m[5], m[4])
      ELSE Vec3(0, 0 - m[6], m[5])

\* GetMultiplicity2Evector(smatrix, evalue)
GetMultiplicity2Evector(sm, evalue) ==
  LET m  == ShiftedMatrix(sm, evalue)
      mi == LargestComponent(m)
  IN  IF mi = 1 \/ mi = 2 THEN Vec3(0 - m[2], m[1], 0)
      ELSE IF mi = 3 THEN Vec3(m[3], 0, 0 - m[1])
      ELSE IF mi = 4 \/ mi = 5 THEN Vec3(0, 0 - m[5], m[4])
      ELSE Vec3(0, 0 - m[6], m[5])

\* the eigenvalues the closed forms stand for: the roots of the
\* characteristic cubic (the matrices of the model have them on the grid)
CubicRoots(sm) ==
  {l \in -16 .. 16 :
     l * l * l - CubicC2(sm) * l * l + CubicC1(sm) * l - CubicC0(sm) = 0}

\* "three distinct roots": l1 is the greatest root, l2 the least, l3 the one
\* between; "pick the larger" keeps l1 unless another is larger in size
ThreeRootsEvalue(sm) ==
  LET l1 == 3 * (CHOOSE l \in CubicRoots(sm) : \A o \in CubicRoots(sm) : o <= l)
      l2 == 3 * (CHOOSE l \in CubicRoots(sm) : \A o \in CubicRoots(sm) : l <= o)
      l3 == 3 * CubicC2(sm) - l1 - l2
      l12 == IF Abs(l2) > Abs(l1) THEN l2 ELSE l1
  IN  IF Abs(l3) > Abs(l12) THEN l3 ELSE l12

\* Vec4::cbrt(0.5 b) with the sign of b, in thirds of an entry: the grid
\* value nearest to the cube root of B / 2
CubeRootOfHalfB(sm) ==
  CHOOSE r \in -16 .. 16 :
    \A o \in -16 .. 16 :
      \/ Abs(2 * r * r * r - QuadraticB(sm)) < Abs(2 * o * o * o - QuadraticB(sm))
      \/ (Abs(2 * r * r * r - QuadraticB(sm)) = Abs(2 * o * o * o - QuadraticB(sm))
            /\ r <= o)

\* a matrix or vector of counts of 1/n as counts of 1/(n * by)
Scaled(v, by) == [i \in DOMAIN v |-> by * v[i]]

\* ComputePrincipleComponent(smatrix); rnd is the rounding of Q
ComputePrincipleComponent(sm, rnd) ==
  LET Q    == RootCountCheck(sm, rnd)
      path == Multiplicity(Q)
      rt   == CubeRootOfHalfB(sm)
      l1   == CubicC2(sm) + rt
      l2   == CubicC2(sm) - 2 * rt
  IN  IF path = "one"
      THEN [Q |-> Q, path |-> path, evalue |-> 0,
            axis |-> Vec3(VecOne, VecOne, VecOne)]
      ELSE IF path = "three"
      THEN [Q |-> Q, path |-> path, evalue |-> ThreeRootsEvalue(sm),
            axis |-> GetMultiplicity1Evector(Scaled(sm, 3), ThreeRootsEvalue(sm))]
      ELSE IF Abs(l1) > Abs(l2)
      THEN [Q |-> Q, path |-> path, evalue |-> l1,
            axis |-> Scaled(GetMultiplicity2Evector(Scaled(sm, 3), l1), 48)]
      ELSE [Q |-> Q, path |-> path, evalue |-> l2,
            axis |-> GetMultiplicity1Evector(Scaled(sm, 3), l2)]

(***************************************************************************)
(* A client of the principal component                                     *)
(***************************************************************************)
\* a client calls ComputePrincipleComponent(smatrix)
PrincipleComponent ==
  /\ fnq = NoQuery
  /\ \E sm \in MatrixChoices :
       \E rnd \in RoundingChoices(sm) :
         fnq' = [fn |-> "ComputePrincipleComponent", smatrix |-> sm,
                 ret |-> ComputePrincipleComponent(sm, rnd)]
  /\ UNCHANGED <<fitvars, lutq>>

SpecPCA == Init /\ [][PrincipleComponent]_vars

\* C11: ComputePrincipleComponent returns the axis (1,1,1) from its first
\* branch exactly when Q > FLT_EPSILON, takes the three-roots branch exactly
\* when Q < -FLT_EPSILON and the double-root branch exactly when
\* -FLT_EPSILON <= Q <= FLT_EPSILON; exactly one of the three is taken and
\* each returns a vector
C11_BranchesPartitionQ ==
  fnq.fn = "ComputePrincipleComponent" =>
    /\ (fnq.ret.path = "one") = (fnq.ret.Q > FLT_EPSILON)
    /\ (fnq.ret.path = "three") = (fnq.ret.Q < 0 - FLT_EPSILON)
    /\ (fnq.ret.path = "two")
         = (0 - FLT_EPSILON <= fnq.ret.Q /\ fnq.ret.Q <= FLT_EPSILON)
    /\ fnq.ret.path \in {"one", "three", "two"}
    /\ (fnq.ret.path = "one" => fnq.ret.axis = Vec3(VecOne, VecOne, VecOne))
    /\ fnq.ret.axis \in Int \X Int \X Int

\* a call whose Q is exactly FLT_EPSILON took the double-root branch and
\* returned a vector that is not zero
C11_Witness ==
  /\ fnq.fn = "ComputePrincipleComponent"
  /\ fnq.ret.Q = FLT_EPSILON
  /\ fnq.ret.path = "two"
  /\ fnq.ret.axis # Vec3(0, 0, 0)


(***************************************************************************)
(* A client of GetMultiplicity1Evector                                     *)
(***************************************************************************)
EvalueChoices == 0 .. 4

\* a client calls GetMultiplicity1Evector(smatrix, evalue)
Multiplicity1Evector ==
  /\ fnq = NoQuery
  /\ \E sm \in MatrixChoices :
       \E evalue \in EvalueChoices :
         fnq' = [fn |-> "GetMultiplicity1Evector", smatrix |-> sm,
                 evalue |-> evalue, ret |-> GetMultiplicity1Evector(sm, evalue)]
  /\ UNCHANGED <<fitvars, lutq>>

SpecEvector1 == Init /\ [][Multiplicity1Evector]_vars

\* the full matrix smatrix - evalue I, rows and columns 1..3
Full3x3(sm, evalue) ==
  <<<<sm[1] - evalue, sm[2], sm[3]>>,
    <<sm[2], sm[4] - evalue, sm[5]>>,
    <<sm[3], sm[5], sm[6] - evalue>>>>

\* the cofactor of element (i, j): the signed minor left when row i and
\* column j are struck out
Cofactor(M, i, j) ==
  LET r1 == CHOOSE r \in 1 .. 3 : r # i /\ \A o \in (1 .. 3) \ {i} : r <= o
      r2 == CHOOSE r \in 1 .. 3 : r # i /\ r # r1
      c1 == CHOOSE c \in 1 .. 3 : c # j /\ \A o \in (1 .. 3) \ {j} : c <= o
      c2 == CHOOSE c \in 1 .. 3 : c # j /\ c # c1
      minor == M[r1][c1] * M[r2][c2] - M[r1][c2] * M[r2][c1]
  IN  IF (i + j) % 2 = 0 THEN minor ELSE 0 - minor

\* column j of the adjugate: the cofactors of row j
AdjugateColumn(M, j) == Vec3(Cofactor(M, j, 1), Cofactor(M, j, 2), Cofactor(M, j, 3))

\* the largest absolute value among the nine elements of the adjugate
AdjugateMax(M) ==
  CHOOSE c \in {Abs(Cofactor(M, i, j)) : i \in 1 .. 3, j \in 1 .. 3} :
    \A i \in 1 .. 3, j \in 1 .. 3 : Abs(Cofactor(M, i, j)) <= c

\* C12: GetMultiplicity1Evector returns a column of the adjugate of
\* smatrix - evalue I, and that column holds an element whose absolute value
\* is the largest of the whole adjugate, ties included
C12_ReturnsColumnWithLargest ==
  fnq.fn = "GetMultiplicity1Evector" =>
    \E j \in 1 .. 3 :
      /\ fnq.ret = AdjugateColumn(Full3x3(fnq.smatrix, fnq.evalue), j)
      /\ \E i \in 1 .. 3 :
           Abs(fnq.ret[i]) = AdjugateMax(Full3x3(fnq.smatrix, fnq.evalue))

\* a call where the largest absolute value is not zero and is shared by the
\* middle diagonal element and an element outside its column
C12_Witness ==
  /\ fnq.fn = "GetMultiplicity1Evector"
  /\ LET M == Full3x3(fnq.smatrix, fnq.evalue)
     IN  /\ AdjugateMax(M) > 0
         /\ Abs(Cofactor(M, 2, 2)) = AdjugateMax(M)
         /\ \E i \in {1, 3}, j \in {1, 3} : Abs(Cofactor(M, i, j)) = AdjugateMax(M)
         /\ \E i \in 1 .. 3 : Abs(fnq.ret[i]) = AdjugateMax(M)


(***************************************************************************)
(* maths.cpp: the weighted covariance of a point set.  Points and weights  *)
(* are whole numbers; the centroid is kept as a count of 1/total and the   *)
(* covariance as a count of 1/(total * total), so that nothing is rounded. *)
(***************************************************************************)
MaxPoints == 3

PointChoices == {Vec3(0, 0, 0), Vec3(1, 0, 3), Vec3(3, 1, 0)}

WeightChoices == {1, 3}

\* the first loop: total and centroid after i points
CentroidLoop(n, points, weights) ==
  LET acc[i \in 0 .. n] ==
        IF i = 0 THEN [total |-> 0, centroid |-> Vec3(0, 0, 0)]
        ELSE [total    |-> acc[i - 1].total + weights[i],
              centroid |-> Vec3(acc[i - 1].centroid[1] + weights[i] * points[i][1],
                                acc[i - 1].centroid[2] + weights[i] * points[i][2],
                                acc[i - 1].centroid[3] + weights[i] * points[i][3])]
  IN  acc[n]

\* a = points[i] - centroid taken from the origin instead
Deviation_FromOrigin(point, centroid, total) ==
  Vec3(total * point[1], total * point[2], total * point[3])

\* a = points[i] - centroid, after centroid /= total; in counts of 1/total
Deviation(point, centroid, total) ==
  Vec3(total * point[1] - centroid[1],
       total * point[2] - centroid[2],
       total * point[3] - centroid[3])

\* the second loop: covariance[0..5] after i points
CovarianceLoop(n, points, weights, centroid, total) ==
  LET acc[i \in 0 .. n] ==
        IF i = 0 THEN Sym3x3(0, 0, 0, 0, 0, 0)
        ELSE LET a == Deviation(points[i], centroid, total)
                 b == Scaled(a, weights[i])
             IN  Sym3x3(acc[i - 1][1] + a[1] * b[1],
                        acc[i - 1][2] + a[1] * b[2],
                        acc[i - 1][3] + a[1] * b[3],
                        acc[i - 1][4] + a[2] * b[2],
                        acc[i - 1][5] + a[2] * b[3],
                        acc[i - 1][6] + a[3] * b[3])
  IN  acc[n]

\* ComputeWeightedCovariance(n, points, weights): covariance = num / den
ComputeWeightedCovariance(n, points, weights) ==
  LET first == CentroidLoop(n, points, weights)
  IN  [num |-> CovarianceLoop(n, points, weights, first.centroid, first.total),
       den |-> first.total * first.total]

\* a client calls ComputeWeightedCovariance(n, points, weights)
WeightedCovariance ==
  /\ fnq = NoQuery
  /\ \E n \in 1 .. MaxPoints :
       \E points \in [1 .. n -> PointChoices], weights \in [1 .. n -> WeightChoices] :
         fnq' = [fn |-> "ComputeWeightedCovariance", n |-> n, points |-> points,
                 weights |-> weights,
                 ret |-> ComputeWeightedCovariance(n, points, weights)]
  /\ UNCHANGED <<fitvars, lutq>>

SpecCovariance == Init /\ [][WeightedCovariance]_vars

RECURSIVE SeqSum(_)
SeqSum(s) == IF s = <<>> THEN 0 ELSE Head(s) + SeqSum(Tail(s))

\* the sum over i of w_i p_i[x] p_i[y], and of w_i p_i[x], and of w_i
RawMoment(points, weights, x, y) ==
  SeqSum([i \in DOMAIN points |-> weights[i] * points[i][x] * points[i][y]])

RawSum(points, weights, x) ==
  SeqSum([i \in DOMAIN points |-> weights[i] * points[i][x]])

\* the axes of the entries, in the order (xx, xy, xz, yy, yz, zz)
EntryAxes == <<<<1, 1>>, <<1, 2>>, <<1, 3>>, <<2, 2>>, <<2, 3>>, <<3, 3>>>>

\* C13: ComputeWeightedCovariance returns, in the order (xx, xy, xz, yy,
\* yz, zz), the entries of the sum of w_i (p_i - mu)(p_i - mu)^T with mu the
\* weighted mean, for n >= 1 points with positive weights; stated through
\* the moments: W * covariance[xy] = W * (sum w p_x p_y) - (sum w p_x)(sum w p_y)
C13_CovarianceOfWeightedPoints ==
  fnq.fn = "ComputeWeightedCovariance" =>
    LET W == SeqSum(fnq.weights)
    IN  /\ fnq.ret.den > 0
        /\ \A k \in 1 .. 6 :
             W * fnq.ret.num[k]
               = fnq.ret.den
                   * (W * RawMoment(fnq.points, fnq.weights, EntryAxes[k][1], EntryAxes[k][2])
                        - RawSum(fnq.points, fnq.weights, EntryAxes[k][1])
                            * RawSum(fnq.points, fnq.weights, EntryAxes[k][2]))

\* a call with points of unequal weights, a centroid off the grid and a
\* covariance whose six entries are all different from zero
C13_Witness ==
  /\ fnq.fn = "ComputeWeightedCovariance"
  /\ fnq.n >= 2
  /\ \E i, j \in 1 .. fnq.n : fnq.weights[i] # fnq.weights[j]
  /\ \E x \in 1 .. 3 : RawSum(fnq.points, fnq.weights, x) % SeqSum(fnq.weights) # 0
  /\ \A k \in 1 .. 6 : fnq.ret.num[k] # 0


(***************************************************************************)
(* Two fitters called by two threads, and SetGamma                         *)
(***************************************************************************)
\* what the members of fitter f hold before its call
PairStale == [f \in Fitters |-> IF f = 1 THEN 0 ELSE 128]

InitPair == InitObjs({1, 2}, PairStale)

PairFormatChoices ==
  {[cb |-> 5, ab |-> 0, sb |-> 0, ib |-> 2], [cb |-> 7, ab |-> 6, sb |-> 0, ib |-> 3]}

PairCmaskChoices == {7, 15}

\* a thread calls an idle fitter
PairCalls(f) ==
  /\ pc[f] = "idle"
  /\ \E s \in Sets, fmt \in PairFormatChoices, cmask \in PairCmaskChoices :
       Call(f, s, <<1, 1, 1, 1>>, fmt, cmask)

\* void SetGamma() { ; }
SetGamma ==
  /\ fnq = NoQuery
  /\ fnq' = [fn |-> "SetGamma"]
  /\ UNCHANGED <<fitvars, lutq>>

NextPair ==
  \/ \E f \in objs : PairCalls(f)
  \/ \E f \in objs : EvalSlot(f)
  \/ SetGamma

SpecPair == InitPair /\ [][NextPair]_vars

\* the call run alone: where it stands after k iterations of its slot loop,
\* from the frame fr of its dispatch, the packed colour entry and members
\* that hold stale
SequentialRun(fr, entry, mem, stale, k) ==
  LET viaNull == \E ch \in Channels :
                   ChannelEnabled(fr.cmask, ch) /\ fr.lookups[ch + 1] = "NULL"
      run[i \in 0 .. k] ==
        IF i = 0
        THEN [pc |-> "loop", besterror |-> FLT_MAX, index |-> 0,
              start |-> [ch \in 1 .. 4 |-> stale], end |-> [ch \in 1 .. 4 |-> stale],
              m_index |-> stale]
        ELSE LET p    == run[i - 1]
                 srcs == SlotSources(fr.lookups, fr.slots, entry, fr.cmask, i - 1, mem)
                 error == SlotError(fr.metric, SlotCerror(srcs, fr.cmask, fr.eLUT))
                 better == Improves(error, p.besterror)
                 best == IF better THEN error ELSE p.besterror
                 stop == (better /\ EarlyOut(best)) \/ i >= fr.slots
             IN  IF p.pc # "loop" THEN p
                 ELSE IF viaNull /\ mem = "unmapped" THEN [p EXCEPT !.pc = "fault"]
                 ELSE [pc |-> IF stop THEN "returned" ELSE "loop",
                       besterror |-> best,
                       index |-> IF stop THEN i - 1 ELSE i,
                       start |-> IF better THEN SlotEndpoint(fr.q, srcs, fr.AxFF, "start")
                                 ELSE p.start,
                       end |-> IF better THEN SlotEndpoint(fr.q, srcs, fr.AxFF, "end")
                               ELSE p.end,
                       m_index |-> IF better THEN i - 1 ELSE p.m_index]
  IN  run[k]

\* C14: whatever the other fitter and SetGamma do between its steps, a
\* ComputeEndPoints call stands after each of its iterations, and at its
\* return, exactly where the same call run alone stands: the tables it reads
\* are never written and its frame and members are its own
C14_InterleavingKeepsResults ==
  \A f \in objs :
    pc[f] \in {"loop", "returned", "fault"} /\ call[f].slots > 0 =>
      LET c == call[f]
          r == SequentialRun(DispatchFrame(c.set, c.metric, c.fmt, c.cmask),
                             PackBytes(m_palette[f][c.set]), lowmem, PairStale[f],
                             Cardinality(c.evaluated))
      IN  /\ pc[f] = r.pc
          /\ (pc[f] # "fault" =>
                /\ c.besterror = r.besterror
                /\ c.index = r.index)
          /\ m_start[f][c.set] = r.start
          /\ m_end[f][c.set] = r.end
          /\ m_index[f] = r.m_index

\* fitter 1 has returned from a call of one format while fitter 2, in a call
\* of the other format, is between two iterations, and SetGamma was called
C14_Witness ==
  /\ pc[1] = "returned" /\ call[1].slots > 0 /\ m_index[1] >= 1
  /\ pc[2] = "loop" /\ call[2].index >= 1
  /\ call[1].fmt # call[2].fmt
  /\ fnq.fn = "SetGamma"


(***************************************************************************)
(* simd_sse.h: Vec4 HorizontalAdd in its two builds.  Lanes hold whole     *)
(* numbers; an addition rounds its exact sum to the 24-bit significand of  *)
(* float, ties to even.                                                    *)
(***************************************************************************)
SignificandBits == 24

\* the float nearest to the whole number n
RoundToFloat(n) ==
  IF Abs(n) < 2^SignificandBits THEN n
  ELSE LET e   == CHOOSE x \in 1 .. 6 :
                    /\ Abs(n) < 2^(SignificandBits + x)
                    /\ Abs(n) >= 2^(SignificandBits + x - 1)
           ulp == 2^e
           lo  == (Abs(n) \div ulp) * ulp
           rem == Abs(n) - lo
           mag == IF 2 * rem < ulp THEN lo
                  ELSE IF 2 * rem > ulp THEN lo + ulp
                  ELSE IF (lo \div ulp) % 2 = 0 THEN lo ELSE lo + ulp
       IN  IF n < 0 THEN 0 - mag ELSE mag

\* _mm_add_ps
mm_add_ps(va, vb) == [i \in 1 .. 4 |-> RoundToFloat(va[i] + vb[i])]

\* _mm_hadd_ps
mm_hadd_ps(va, vb) ==
  <<RoundToFloat(va[1] + va[2]), RoundToFloat(va[3] + va[4]),
    RoundToFloat(vb[1] + vb[2]), RoundToFloat(vb[3] + vb[4])>>

\* SQUISH_SSE_SHUF(x, y, z, w): the four 2-bit lane selectors of the immediate
SQUISH_SSE_SHUF(x, y, z, w) == <<x, y, z, w>>

SQUISH_SSE_SWAP64 == SQUISH_SSE_SHUF(2, 3, 0, 1)

SQUISH_SSE_SWAP32 == SQUISH_SSE_SHUF(3, 2, 1, 0)

\* _mm_shuffle_ps: the low two lanes from va, the high two from vb
mm_shuffle_ps(va, vb, imm) ==
  <<va[imm[1] + 1], va[imm[2] + 1], vb[imm[3] + 1], vb[imm[4] + 1]>>

\* HorizontalAdd, SQUISH_USE_XSSE == 4 or SQUISH_USE_SSE >= 3
HorizontalAdd_hadd(va) ==
  LET res == mm_hadd_ps(va, va) IN mm_hadd_ps(res, res)

\* HorizontalAdd, the other builds
HorizontalAdd_shuffle(va) ==
  LET res == mm_add_ps(va, mm_shuffle_ps(va, va, SQUISH_SSE_SWAP64))
  IN  mm_add_ps(res, mm_shuffle_ps(res, res, SQUISH_SSE_SWAP32))

LaneChoices == {0, 1, -1, 3, 2^SignificandBits, 0 - 2^SignificandBits}

\* a client calls HorizontalAdd(a); the record holds what each build returns
HorizontalAddCall ==
  /\ fnq = NoQuery
  /\ \E va \in [1 .. 4 -> LaneChoices] :
       fnq' = [fn |-> "HorizontalAdd", a |-> va,
               hadd |-> HorizontalAdd_hadd(va), shuffle |-> HorizontalAdd_shuffle(va)]
  /\ UNCHANGED <<fitvars, lutq>>

SpecHorizontalAdd == Init /\ [][HorizontalAddCall]_vars

\* C15 as stated: the hadd build and the shuffle-and-add build of
\* HorizontalAdd return the same four lanes for every input
C15_BuildsAgree ==
  fnq.fn = "HorizontalAdd" => fnq.hadd = fnq.shuffle


(***************************************************************************)
(* simd_sse.h: Col4, four 32-bit lanes.  A lane is the pair <<hi, lo>> of  *)
(* its 16-bit halves.                                                      *)
(***************************************************************************)
HalfRange == 65536

\* the lane that holds the whole number n, 0 <= n < 2^31
Lane(n) == <<n \div HalfRange, n % HalfRange>>

Col4(r, g, b, a) == <<Lane(r), Lane(g), Lane(b), Lane(a)>>

\* the low 16 bits of the product of two halves
Mul16Lo(x, y) == ((((x \div 256) * y) % 256) * 256 + (x % 256) * y) % HalfRange

\* the high 16 bits of the product of two halves
Mul16Hi(x, y) == ((x \div 256) * y + ((x % 256) * y) \div 256) \div 256

\* slip: the other 16-bit multiply, which keeps the high half of each product
mm_mulhi_epu16(va, vb) ==
  [i \in 1 .. 4 |-> <<Mul16Hi(va[i][1], vb[i][1]), Mul16Hi(va[i][2], vb[i][2])>>]

\* _mm_mullo_epi16: each of the eight 16-bit halves times its partner, low
\* 16 bits kept
mm_mullo_epi16(va, vb) ==
  [i \in 1 .. 4 |-> <<Mul16Lo(va[i][1], vb[i][1]), Mul16Lo(va[i][2], vb[i][2])>>]

\* 32-bit lane addition and subtraction, wrapping
Add32(p, q) ==
  <<(p[1] + q[1] + (p[2] + q[2]) \div HalfRange) % HalfRange, (p[2] + q[2]) % HalfRange>>

Sub32(p, q) ==
  <<(p[1] - q[1] - (IF p[2] < q[2] THEN 1 ELSE 0) + HalfRange) % HalfRange,
    (p[2] - q[2] + HalfRange) % HalfRange>>

\* _mm_add_epi32, _mm_sub_epi32, _mm_shuffle_epi32
mm_add_epi32(va, vb) == [i \in 1 .. 4 |-> Add32(va[i], vb[i])]

mm_sub_epi32(va, vb) == [i \in 1 .. 4 |-> Sub32(va[i], vb[i])]

mm_shuffle_epi32(va, imm) ==
  <<va[imm[1] + 1], va[imm[2] + 1], va[imm[3] + 1], va[imm[4] + 1]>>

\* Col4 operator* and operator*=
Col4Multiply(left, right) == mm_mullo_epi16(left, right)

\* MultiplyAdd: a*b + c
MultiplyAdd(va, vb, vc) == mm_add_epi32(mm_mullo_epi16(va, vb), vc)

\* NegativeMultiplySubtract: -( a*b - c )
NegativeMultiplySubtract(va, vb, vc) == mm_sub_epi32(vc, mm_mullo_epi16(va, vb))

\* Col4 HorizontalAdd
Col4HorizontalAdd(va) ==
  LET res == mm_add_epi32(va, mm_shuffle_epi32(va, SQUISH_SSE_SWAP64))
  IN  mm_add_epi32(res, mm_shuffle_epi32(res, SQUISH_SSE_SWAP32))

\* Col4 Dot
Col4Dot(left, right) == Col4HorizontalAdd(mm_mullo_epi16(left, right))

Col4Choices ==
  {Col4(0, 1, 2, 255), Col4(255, 255, 255, 255), Col4(257, 3, 65535, 1),
   Col4(256, 16, 4095, 0), Col4(65535, 65535, 256, 128), Col4(1, 1, 1, 1)}

Col4AddendChoices ==
  {Col4(0, 0, 0, 0), Col4(1, 65535, 65536, 70000),
   <<<<65535, 65535>>, <<65535, 65535>>, <<65535, 1>>, <<32768, 0>>>>}

\* the calls a client makes
Col4Times ==
  /\ fnq = NoQuery
  /\ \E va \in Col4Choices, vb \in Col4Choices :
       fnq' = [fn |-> "Col4 operator*", a |-> va, b |-> vb, c |-> Col4(0, 0, 0, 0),
               ret |-> Col4Multiply(va, vb)]
  /\ UNCHANGED <<fitvars, lutq>>

Col4TimesAssign ==
  /\ fnq = NoQuery
  /\ \E va \in Col4Choices, vb \in Col4Choices :
       fnq' = [fn |-> "Col4 operator*=", a |-> va, b |-> vb, c |-> Col4(0, 0, 0, 0),
               ret |-> Col4Multiply(va, vb)]
  /\ UNCHANGED <<fitvars, lutq>>

Col4MultiplyAdd ==
  /\ fnq = NoQuery
  /\ \E va \in Col4Choices, vb \in Col4Choices, vc \in Col4AddendChoices :
       fnq' = [fn |-> "Col4 MultiplyAdd", a |-> va, b |-> vb, c |-> vc,
               ret |-> MultiplyAdd(va, vb, vc)]
  /\ UNCHANGED <<fitvars, lutq>>

Col4NegativeMultiplySubtract ==
  /\ fnq = NoQuery
  /\ \E va \in Col4Choices, vb \in Col4Choices, vc \in Col4AddendChoices :
       fnq' = [fn |-> "Col4 NegativeMultiplySubtract", a |-> va, b |-> vb, c |-> vc,
               ret |-> NegativeMultiplySubtract(va, vb, vc)]
  /\ UNCHANGED <<fitvars, lutq>>

Col4DotCall ==
  /\ fnq = NoQuery
  /\ \E va \in Col4Choices, vb \in Col4Choices :
       fnq' = [fn |-> "Col4 Dot", a |-> va, b |-> vb, c |-> Col4(0, 0, 0, 0),
               ret |-> Col4Dot(va, vb)]
  /\ UNCHANGED <<fitvars, lutq>>

NextCol4 ==
  \/ Col4Times
  \/ Col4TimesAssign
  \/ Col4MultiplyAdd
  \/ Col4NegativeMultiplySubtract
  \/ Col4DotCall

SpecCol4 == Init /\ [][NextCol4]_vars

\* lane i of a and b: both values below 2^16 and their product below 2^16
SmallProduct(va, vb, i) ==
  /\ va[i][1] = 0
  /\ vb[i][1] = 0
  /\ (vb[i][2] = 0 \/ va[i][2] <= (HalfRange - 1) \div vb[i][2])

\* the exact product of lane i, as a lane
ExactProduct(va, vb, i) == Lane(va[i][2] * vb[i][2])

\* C16: in every lane whose two values are below 2^16 with a product below
\* 2^16, operator*, operator*=, MultiplyAdd and NegativeMultiplySubtract
\* give what they give with the exact product in place of the 16-bit
\* multiply, and so does Dot when all four lanes are such
C16_SmallProductsAreExact ==
  /\ fnq.fn \in {"Col4 operator*", "Col4 operator*="} =>
       \A i \in 1 .. 4 :
         SmallProduct(fnq.a, fnq.b, i) => fnq.ret[i] = ExactProduct(fnq.a, fnq.b, i)
  /\ fnq.fn = "Col4 MultiplyAdd" =>
       \A i \in 1 .. 4 :
         SmallProduct(fnq.a, fnq.b, i) =>
           fnq.ret[i] = Add32(ExactProduct(fnq.a, fnq.b, i), fnq.c[i])
  /\ fnq.fn = "Col4 NegativeMultiplySubtract" =>
       \A i \in 1 .. 4 :
         SmallProduct(fnq.a, fnq.b, i) =>
           fnq.ret[i] = Sub32(fnq.c[i], ExactProduct(fnq.a, fnq.b, i))
  /\ (fnq.fn = "Col4 Dot" /\ \A i \in 1 .. 4 : SmallProduct(fnq.a, fnq.b, i)) =>
       \A i \in 1 .. 4 :
         fnq.ret[i] = Lane(fnq.a[1][2] * fnq.b[1][2] + fnq.a[2][2] * fnq.b[2][2]
                             + fnq.a[3][2] * fnq.b[3][2] + fnq.a[4][2] * fnq.b[4][2])

\* a MultiplyAdd whose first lane multiplies 257 by 255, the largest product
\* below 2^16, and adds it to a lane that wraps
C16_Witness ==
  /\ fnq.fn = "Col4 MultiplyAdd"
  /\ SmallProduct(fnq.a, fnq.b, 1)
  /\ fnq.a[1][2] * fnq.b[1][2] = HalfRange - 1
  /\ fnq.c[1] = <<65535, 65535>>
  /\ fnq.ret[1] = <<0, 65534>>


\* the sources of slot j in the call of f, and the endpoint they give
SourcesAt(f, j) ==
  SlotSources(call[f].lookups, call[f].slots, m_entry[f][call[f].set], call[f].cmask,
              j, lowmem)

EndpointAt(f, j, field) == SlotEndpoint(call[f].q, SourcesAt(f, j), call[f].AxFF, field)

\* C17: when a table-driven call returns, m_start[set] and m_end[set] are
\* the endpoints of slot m_index, that slot gives the returned error, and no
\* slot before it gives an error as low
C17_MembersFromLowestBestSlot ==
  \A f \in objs :
    LoopReturned(f) =>
      /\ m_index[f] \in 0 .. (call[f].slots - 1)
      /\ m_start[f][call[f].set] = EndpointAt(f, m_index[f], "start")
      /\ m_end[f][call[f].set] = EndpointAt(f, m_index[f], "end")
      /\ SlotSum(f, m_index[f]) = call[f].ret
      /\ \A i \in 0 .. (m_index[f] - 1) : SlotSum(f, i) > call[f].ret

\* a call returned with a best slot after slot 0 and a later slot that gives
\* the same error with other endpoints
C17_Witness ==
  \E f \in objs :
    /\ LoopReturned(f)
    /\ m_index[f] >= 1
    /\ \E i \in (m_index[f] + 1) .. (call[f].slots - 1) :
         /\ SlotSum(f, i) = call[f].ret
         /\ EndpointAt(f, i, "start") # m_start[f][call[f].set]


\* smatrix is s times the identity, the zero matrix included
IsMultipleOfIdentity(sm) ==
  sm[2] = 0 /\ sm[3] = 0 /\ sm[5] = 0 /\ sm[1] = sm[4] /\ sm[4] = sm[6]

\* C18 as stated: for a covariance that is a multiple of the identity
\* ComputePrincipleComponent takes the "only one root" branch and returns
\* the axis (1,1,1)
C18_IdentityMultipleGivesOnes ==
  (fnq.fn = "ComputePrincipleComponent" /\ IsMultipleOfIdentity(fnq.smatrix)) =>
    /\ fnq.ret.path = "one"
    /\ fnq.ret.axis = Vec3(VecOne, VecOne, VecOne)


MaxCalls == 2

SeqFormatChoices ==
  {[cb |-> 5, ab |-> 0, sb |-> 0, ib |-> 2], [cb |-> 7, ab |-> 0, sb |-> 0, ib |-> 3],
   [cb |-> 8, ab |-> 8, sb |-> 0, ib |-> 4]}

\* the caller calls an idle fitter with a supported format
SeqCalls(f) ==
  /\ pc[f] = "idle"
  /\ \E s \in Sets, fmt \in SeqFormatChoices : Call(f, s, <<1, 1, 1, 1>>, fmt, 7)

\* the caller takes the result of a call; the fitter can be called again
Return(f) ==
  /\ f \in objs
  /\ pc[f] = "returned"
  /\ IF fnq = NoQuery
     THEN fnq' = [fn |-> "ComputeEndPoints", returns |-> 1]
     ELSE /\ fnq.fn = "ComputeEndPoints"
          /\ fnq.returns < MaxCalls - 1
          /\ fnq' = [fnq EXCEPT !.returns = @ + 1]
  /\ pc' = [pc EXCEPT ![f] = "idle"]
  /\ UNCHANGED <<lowmem, objs, m_palette, m_flags, m_start, m_end, m_entry, m_index,
                 call, lutq>>

NextSeq ==
  \/ \E f \in objs : SeqCalls(f)
  \/ \E f \in objs : EvalSlot(f)
  \/ \E f \in objs : Return(f)

SpecSeq == Init /\ [][NextSeq]_vars

\* C20: after every call of a sequence of calls with supported formats,
\* m_index is below 2^(ib-1) for the ib of that call
C20_IndexTopBitClear ==
  \A f \in objs :
    (pc[f] \in {"returned", "idle"} /\ call[f].slots > 0) =>
      m_index[f] < Pow2(call[f].fmt.ib - 1)

\* the fitter has returned from a call with ib = 2 that kept slot 1, after a
\* call that left its result in another subset
C20_Witness ==
  \E f \in objs :
    /\ fnq.fn = "ComputeEndPoints"
    /\ pc[f] = "returned"
    /\ call[f].fmt.ib = 2
    /\ m_index[f] = 1
    /\ \E s \in Sets : s # call[f].set /\ m_entry[f][s] = PackBytes(m_palette[f][s])
                       /\ m_entry[f][s] # <<128, 128, 128, 128>>


\* what a call for subset t with format fmt, run on its own in SpecSeq,
\* leaves in the members
OwnCall(f, t, fmt) ==
  LET fr == DispatchFrame(t, <<1, 1, 1, 1>>, fmt, 7)
  IN  SequentialRun(fr, PackBytes(m_palette[f][t]), lowmem, 128, fr.slots)

\* subset t of fitter f has been fitted
Fitted(f, t) == m_start[f][t] # <<128, 128, 128, 128>>

\* the members kept per subset: between calls, the entry, start and end of
\* every fitted subset are those of a call of its own
OtherSubsetsKeepEndpoints ==
  \A f \in objs :
    pc[f] \in {"idle", "returned"} =>
      \A t \in Sets :
        Fitted(f, t) =>
          \E fmt \in SeqFormatChoices :
            /\ m_entry[f][t] = PackBytes(m_palette[f][t])
            /\ m_start[f][t] = OwnCall(f, t, fmt).start
            /\ m_end[f][t] = OwnCall(f, t, fmt).end

\* C21 as stated: after the subsets of a block are fitted one after the
\* other, the entry, start, end and index recorded for each subset are the
\* ones its own call chose
C21_EachSubsetKeepsItsChoice ==
  \A f \in objs :
    pc[f] \in {"idle", "returned"} =>
      \A t \in Sets :
        Fitted(f, t) =>
          \E fmt \in SeqFormatChoices :
            /\ m_entry[f][t] = PackBytes(m_palette[f][t])
            /\ m_start[f][t] = OwnCall(f, t, fmt).start
            /\ m_end[f][t] = OwnCall(f, t, fmt).end
            /\ m_index[f] = OwnCall(f, t, fmt).m_index


(***************************************************************************)
(* maths.cpp: the covariance of Vec4 points.  `centroid /= total` is a     *)
(* multiplication by Reciprocal(total), a refined hardware estimate.  A    *)
(* value is the pair or triple of its coefficients in powers of eps, the   *)
(* square of the relative error bound of the estimate.                     *)
(***************************************************************************)
Vec4(vx, vy, vz, vw) == <<vx, vy, vz, vw>>

\* _mm_rcp_ps: the estimate is (1 + j eta) / v, with j a whole number of the
\* error unit eta that the processor picks
RcpErrorChoices == {-1, 0, 1}

\* Reciprocal(v): estimate * (2 - estimate * v) = (1 - j j eps) / v with
\* eps = eta eta; the coefficients of 1 / v in <<1, eps>>
Reciprocal(j) == <<1, 0 - j * j>>

\* the first loop of the Vec4 overload
CentroidLoop4(n, points, weights) ==
  LET acc[i \in 0 .. n] ==
        IF i = 0 THEN [total |-> 0, centroid |-> Vec4(0, 0, 0, 0)]
        ELSE [total    |-> acc[i - 1].total + weights[i],
              centroid |-> [l \in 1 .. 4 |->
                              acc[i - 1].centroid[l] + weights[i] * points[i][l]]]
  IN  acc[n]

\* a = points[i] - centroid after centroid *= Reciprocal(total): each lane
\* in counts of 1/total, as <<coefficient of 1, coefficient of eps>>
Deviation4(point, centroid, total, rcp) ==
  [l \in 1 .. 4 |-> <<total * point[l] - centroid[l] * rcp[1], 0 - centroid[l] * rcp[2]>>]

\* a.X() * b.Y() and the like: coefficients of 1, eps, eps eps
LaneProduct(x, y) == <<x[1] * y[1], x[1] * y[2] + x[2] * y[1], x[2] * y[2]>>

\* the second loop of the Vec4 overload
CovarianceLoop4(n, points, weights, centroid, total, rcp) ==
  LET plus(s, x, y) == [c \in 1 .. 3 |-> s[c] + LaneProduct(x, y)[c]]
      acc[i \in 0 .. n] ==
        IF i = 0 THEN [k \in 1 .. 6 |-> <<0, 0, 0>>]
        ELSE LET a == Deviation4(points[i], centroid, total, rcp)
                 b == [l \in 1 .. 4 |-> Scaled(a[l], weights[i])]
             IN  <<plus(acc[i - 1][1], a[1], b[1]),
                   plus(acc[i - 1][2], a[1], b[2]),
                   plus(acc[i - 1][3], a[1], b[3]),
                   plus(acc[i - 1][4], a[2], b[2]),
                   plus(acc[i - 1][5], a[2], b[3]),
                   plus(acc[i - 1][6], a[3], b[3])>>
  IN  acc[n]

\* ComputeWeightedCovariance(n, Vec4 points, weights): entry k is
\* (num[k][1] + num[k][2] eps + num[k][3] eps eps) / den
ComputeWeightedCovariance4(n, points, weights, j) ==
  LET first == CentroidLoop4(n, points, weights)
  IN  [num |-> CovarianceLoop4(n, points, weights, first.centroid, first.total,
                               Reciprocal(j)),
       den |-> first.total * first.total]

Point4Choices == {Vec4(0, 0, 0, 0), Vec4(1, 0, 3, 5), Vec4(3, 1, 0, 0), Vec4(1, 0, 3, 0)}

\* a client calls both overloads on the same points and weights
WeightedCovariance4 ==
  /\ fnq = NoQuery
  /\ \E n \in 1 .. MaxPoints :
       \E points \in [1 .. n -> Point4Choices], weights \in [1 .. n -> WeightChoices],
          j \in RcpErrorChoices :
         fnq' = [fn |-> "ComputeWeightedCovariance4", n |-> n, points |-> points,
                 weights |-> weights, rcp |-> j,
                 ret |-> ComputeWeightedCovariance4(n, points, weights, j),
                 ret3 |-> ComputeWeightedCovariance(
                            n, [i \in 1 .. n |-> Vec3(points[i][1], points[i][2], points[i][3])],
                            weights)]
  /\ UNCHANGED <<fitvars, lutq>>

SpecCovariance4 == Init /\ [][WeightedCovariance4]_vars

\* C22 as stated: the Vec4 overload returns the same six values as the Vec3
\* overload on the X, Y, Z parts of the same points and weights
C22_Vec4SameAsVec3 ==
  fnq.fn = "ComputeWeightedCovariance4" =>
    /\ fnq.ret.den = fnq.ret3.den
    /\ \A k \in 1 .. 6 : fnq.ret.num[k] = <<fnq.ret3.num[k], 0, 0>>

\* with an exact reciprocal the two overloads agree, whatever W holds
Vec4SameAsVec3WhenExact ==
  (fnq.fn = "ComputeWeightedCovariance4" /\ fnq.rcp = 0) =>
    /\ fnq.ret.den = fnq.ret3.den
    /\ \A k \in 1 .. 6 : fnq.ret.num[k] = <<fnq.ret3.num[k], 0, 0>>


(***************************************************************************)
(* The product of M = smatrix - evalue I with the returned vector          *)
(***************************************************************************)
Det3x3(M) ==
    M[1][1] * (M[2][2] * M[3][3] - M[2][3] * M[3][2])
  - M[1][2] * (M[2][1] * M[3][3] - M[2][3] * M[3][1])
  + M[1][3] * (M[2][1] * M[3][2] - M[2][2] * M[3][1])

MatVec(M, v) == [i \in 1 .. 3 |-> M[i][1] * v[1] + M[i][2] * v[2] + M[i][3] * v[3]]

UnitTimes(d, j) == [i \in 1 .. 3 |-> IF i = j THEN d ELSE 0]

\* C23: the vector v returned by GetMultiplicity1Evector satisfies
\* M v = det(M) e_j for a column j, with M = smatrix - evalue I; so M v = 0
\* when det(M) = 0
C23_ProductIsDetTimesUnit ==
  fnq.fn = "GetMultiplicity1Evector" =>
    LET M == Full3x3(fnq.smatrix, fnq.evalue)
    IN  \E j \in 1 .. 3 : MatVec(M, fnq.ret) = UnitTimes(Det3x3(M), j)

\* a call with a matrix that is not diagonal, an eigenvalue of it, and a
\* returned vector that is not zero: an eigenvector
C23_Witness ==
  /\ fnq.fn = "GetMultiplicity1Evector"
  /\ fnq.smatrix[2] # 0
  /\ LET M == Full3x3(fnq.smatrix, fnq.evalue)
     IN  /\ Det3x3(M) = 0
         /\ fnq.ret # Vec3(0, 0, 0)
         /\ MatVec(M, fnq.ret) = Vec3(0, 0, 0)

\* a call where the determinant is not zero and the middle column is chosen
C23_WitnessRegular ==
  /\ fnq.fn = "GetMultiplicity1Evector"
  /\ LET M == Full3x3(fnq.smatrix, fnq.evalue)
     IN  /\ Det3x3(M) # 0
         /\ MatVec(M, fnq.ret) = UnitTimes(Det3x3(M), 2)


(***************************************************************************)
(* A client of GetMultiplicity2Evector                                     *)
(***************************************************************************)
Matrix2Choices ==
  MatrixChoices \cup
    {Sym3x3(1, 1, 1, 1, 1, 1), Sym3x3(1, 2, 0, 4, 0, 0), Sym3x3(0, 0, 0, 1, 2, 4),
     Sym3x3(4, 0, 2, 0, 0, 1), Sym3x3(1, -1, 2, 1, -2, 4), Sym3x3(0, 1, 0, 0, 0, 0),
     Sym3x3(0, 0, 3, 0, 0, 0), Sym3x3(0, 0, 0, 0, -3, 0), Sym3x3(1, 2, 3, 3, 1, 2)}

\* a client calls GetMultiplicity2Evector(smatrix, evalue)
Multiplicity2Evector ==
  /\ fnq = NoQuery
  /\ \E sm \in Matrix2Choices :
       \E evalue \in EvalueChoices :
         fnq' = [fn |-> "GetMultiplicity2Evector", smatrix |-> sm,
                 evalue |-> evalue, ret |-> GetMultiplicity2Evector(sm, evalue)]
  /\ UNCHANGED <<fitvars, lutq>>

SpecEvector2 == Init /\ [][Multiplicity2Evector]_vars

RowDot(row, v) == row[1] * v[1] + row[2] * v[2] + row[3] * v[3]

\* every 2x2 minor of M is zero and M is not: rank one
IsRankOne(M) ==
  /\ \E i \in 1 .. 3 : M[i] # Vec3(0, 0, 0)
  /\ \A i \in 1 .. 3, j \in 1 .. 3 : Cofactor(M, i, j) = 0

\* C24: when M = smatrix - evalue I is not zero, the vector returned by
\* GetMultiplicity2Evector is not zero and is orthogonal to a non-zero row of
\* M; so M v = 0 when M has rank one
C24_OrthogonalToNonZeroRow ==
  fnq.fn = "GetMultiplicity2Evector" =>
    LET M == Full3x3(fnq.smatrix, fnq.evalue)
    IN  /\ (\E i \in 1 .. 3 : M[i] # Vec3(0, 0, 0)) =>
             /\ fnq.ret # Vec3(0, 0, 0)
             /\ \E i \in 1 .. 3 : M[i] # Vec3(0, 0, 0) /\ RowDot(M[i], fnq.ret) = 0
        /\ IsRankOne(M) => MatVec(M, fnq.ret) = Vec3(0, 0, 0)

\* a call with a rank-one M that is not diagonal: the returned vector is not
\* zero and M v = 0
C24_Witness ==
  /\ fnq.fn = "GetMultiplicity2Evector"
  /\ LET M == Full3x3(fnq.smatrix, fnq.evalue)
     IN  /\ IsRankOne(M)
         /\ M[1][2] # 0
         /\ fnq.ret # Vec3(0, 0, 0)
         /\ MatVec(M, fnq.ret) = Vec3(0, 0, 0)

\* a call where the xz element of M is the largest: the returned vector is
\* (m2, 0, -m0), orthogonal to the first row
C24_WitnessCase2 ==
  /\ fnq.fn = "GetMultiplicity2Evector"
  /\ LET M == Full3x3(fnq.smatrix, fnq.evalue)
     IN  /\ \A i \in 1 .. 3, j \in 1 .. 3 : Abs(M[i][j]) <= Abs(M[1][3])
         /\ Abs(M[1][1]) < Abs(M[1][3]) /\ Abs(M[1][2]) < Abs(M[1][3])
         /\ fnq.ret = Vec3(M[1][3], 0, 0 - M[1][1])
         /\ RowDot(M[1], fnq.ret) = 0


(***************************************************************************)
(* The asserts after the byte packing                                      *)
(***************************************************************************)
\* the scalar FloatToInt(a, limit) of the asserts: the whole number nearest
\* to a, kept within 0 .. limit; a in units of 1/PointDen
FloatToInt(a, limit) ==
  LET i == (2 * a + PointDen) \div (2 * PointDen)
  IN  IF i < 0 THEN 0 ELSE IF i > limit THEN limit ELSE i

\* 255 * v of one channel, in units of 1/PointDen: whole numbers, values
\* between two whole numbers, and values outside 0 .. 255
ScaledChannelChoices ==
  {0, PointDen - 1, 128 * PointDen + 1, 255 * PointDen, 255 * PointDen + 1,
   0 - (PointDen + 1), 40000 * PointDen}

\* the packing and the four asserts of ComputeEndPoints, for one colour
PackAndAssert ==
  /\ fnq = NoQuery
  /\ \E values \in [1 .. 4 -> ScaledChannelChoices] :
       fnq' = [fn |-> "PackBytes", values |-> values, m_entry |-> PackBytes(values),
               asserted |-> [ch \in 1 .. 4 |-> FloatToInt(values[ch], 255)]]
  /\ UNCHANGED <<fitvars, lutq>>

SpecPack == Init /\ [][PackAndAssert]_vars

\* C25: the four asserts hold: each byte of m_entry[set] equals the scalar
\* FloatToInt(255 v, 255), the nearest whole number kept within 0 .. 255, so
\* every byte used as a table index is in 0 .. 255
C25_AssertsHold ==
  fnq.fn = "PackBytes" =>
    \A ch \in 1 .. 4 :
      /\ fnq.m_entry[ch] = fnq.asserted[ch]
      /\ fnq.m_entry[ch] \in 0 .. 255

\* a colour with a channel between two whole numbers, one below zero and
\* one beyond the 16-bit range: the bytes are the rounded value, 0 and 255
C25_Witness ==
  /\ fnq.fn = "PackBytes"
  /\ fnq.values[1] = 128 * PointDen + 1
  /\ fnq.values[2] = 0 - (PointDen + 1)
  /\ fnq.values[3] = 40000 * PointDen
  /\ fnq.values[4] = 255 * PointDen
  /\ fnq.m_entry[2] = 0 /\ fnq.m_entry[3] = 255 /\ fnq.m_entry[4] = 255
  /\ fnq.m_entry[1] \in {128, 129}


(***************************************************************************)
(* The 32-bit product of two lanes                                         *)
(***************************************************************************)
\* p q mod 2^32 on <<hi, lo>> lanes
Mul32(p, q) ==
  <<(Mul16Hi(p[2], q[2]) + Mul16Lo(p[1], q[2]) + Mul16Lo(p[2], q[1])) % HalfRange,
    Mul16Lo(p[2], q[2])>>

\* C26 as stated: in every 32-bit lane MultiplyAdd(a, b, c) is a b + c and
\* NegativeMultiplySubtract(a, b, c) is c - a b, modulo 2^32, for all lane
\* values
C26_LanesAreFullProducts ==
  /\ fnq.fn = "Col4 MultiplyAdd" =>
       \A i \in 1 .. 4 : fnq.ret[i] = Add32(Mul32(fnq.a[i], fnq.b[i]), fnq.c[i])
  /\ fnq.fn = "Col4 NegativeMultiplySubtract" =>
       \A i \in 1 .. 4 : fnq.ret[i] = Sub32(fnq.c[i], Mul32(fnq.a[i], fnq.b[i]))


(***************************************************************************)
(* simd_sse.h: Col4 Min, Max and Clamp                                     *)
(***************************************************************************)
\* a 16-bit half read as a signed number
Signed16(h) == IF h >= HalfRange \div 2 THEN h - HalfRange ELSE h

\* _mm_min_epi16, _mm_max_epi16: signed minimum and maximum of each of the
\* eight 16-bit halves
mm_min_epi16(va, vb) ==
  [i \in 1 .. 4 |->
     [h \in 1 .. 2 |-> IF Signed16(va[i][h]) <= Signed16(vb[i][h]) THEN va[i][h] ELSE vb[i][h]]]

mm_max_epi16(va, vb) ==
  [i \in 1 .. 4 |->
     [h \in 1 .. 2 |-> IF Signed16(va[i][h]) >= Signed16(vb[i][h]) THEN va[i][h] ELSE vb[i][h]]]

Col4Min(left, right) == mm_min_epi16(left, right)

Col4Max(left, right) == mm_max_epi16(left, right)

\* Col4::Clamp
Clamp(va) == Col4Min(Col4(255, 255, 255, 255), Col4Max(Col4(0, 0, 0, 0), va))

\* lane values: within 0 .. 255, above it, and negative
ClampLaneChoices ==
  {Lane(0), Lane(100), Lane(255), Lane(256), Lane(32768), Lane(65537),
   <<65535, 65535>>, <<65535, 1>>}

\* a client calls v.Clamp()
Col4Clamp ==
  /\ fnq = NoQuery
  /\ \E va \in [1 .. 4 -> ClampLaneChoices] :
       fnq' = [fn |-> "Col4 Clamp", a |-> va, ret |-> Clamp(va)]
  /\ UNCHANGED <<fitvars, lutq>>

SpecClamp == Init /\ [][Col4Clamp]_vars

\* a signed 32-bit lane kept within 0 .. 255
ClampedLane(p) ==
  IF p[1] >= HalfRange \div 2 THEN Lane(0)
  ELSE IF p[1] > 0 \/ p[2] > 255 THEN Lane(255)
  ELSE p

\* C27 as stated: Clamp returns in every lane the signed 32-bit value kept
\* within 0 .. 255
C27_ClampKeepsWithinByte ==
  fnq.fn = "Col4 Clamp" => \A i \in 1 .. 4 : fnq.ret[i] = ClampedLane(fnq.a[i])

\* Clamp is right for lanes within the signed 16-bit range
ClampRightWithin16Bits ==
  fnq.fn = "Col4 Clamp" =>
    \A i \in 1 .. 4 :
      (\/ fnq.a[i][1] = 0 /\ fnq.a[i][2] < HalfRange \div 2
       \/ fnq.a[i][1] = HalfRange - 1 /\ fnq.a[i][2] >= HalfRange \div 2)
        => fnq.ret[i] = ClampedLane(fnq.a[i])


(***************************************************************************)
(* simd_sse.h: MaskBits, CopyBits and ExtrBits on the low 64 bits of a     *)
(* Col4.  A 64-bit value is the set of the positions of its one bits.      *)
(***************************************************************************)
WordBits == 64

\* _mm_slli_epi64 / _mm_sll_epi64 and _mm_srli_epi64 / _mm_srl_epi64
ShiftLeftHalf(a, n) == {i + n : i \in {k \in a : k + n < WordBits}}

ShiftRightHalf(a, n) == {i - n : i \in {k \in a : k >= n}}

\* MaskBits<n, p>(a)
MaskBits(a, n, p) ==
  IF p + n <= 0 THEN {}
  ELSE IF p + n >= WordBits THEN a
  ELSE a \cap (0 .. (p + n - 1))

\* MaskBits(a, n, p): all ones shifted right by max(64 - (p + n), 0)
MaskBitsRunTime(a, n, p) ==
  LET val   == WordBits - (p + n)
      shift == IF val < 0 THEN 0 ELSE val
  IN  a \cap ShiftRightHalf(0 .. (WordBits - 1), shift)

\* CopyBits<n, p>(left, right), the build without SSE4a
CopyBits(left, right, n, p) ==
  IF n = 0 THEN left
  ELSE IF p = 0 THEN MaskBits(right, n, 0)
  ELSE IF p + n >= WordBits THEN left \cup ShiftLeftHalf(right, p)
  ELSE MaskBits(left, p, 0) \cup MaskBits(ShiftLeftHalf(right, p), n, p)

\* CopyBits(left, right, n, p)
CopyBitsRunTime(left, right, n, p) ==
  MaskBitsRunTime(left, p, 0) \cup MaskBitsRunTime(ShiftLeftHalf(right, p), n, p)

\* ExtrBits<n, p>(a)
ExtrBits(a, n, p) ==
  IF n = 0 THEN {}
  ELSE IF p = 0 THEN MaskBits(a, n, 0)
  ELSE IF n + p >= WordBits THEN ShiftRightHalf(a, p)
  ELSE MaskBits(ShiftRightHalf(a, p), n, 0)

\* ExtrBits(a, n, p)
ExtrBitsRunTime(a, n, p) == MaskBitsRunTime(ShiftRightHalf(a, p), n, 0)

\* <<n, p>> with n > 0, p >= 0 and p + n <= 64
FieldChoices ==
  {<<1, 0>>, <<8, 0>>, <<64, 0>>, <<8, 8>>, <<16, 40>>, <<31, 32>>, <<32, 32>>,
   <<1, 63>>, <<63, 1>>}

WordChoices ==
  {{}, 0 .. 63, {i \in 0 .. 63 : i % 2 = 0}, 32 .. 63, {63}, {0, 7, 8, 31, 33, 40, 62}}

\* a client inserts a field and reads it back, with the template functions
\* and with the run-time ones
InsertAndExtract ==
  /\ fnq = NoQuery
  /\ \E f \in FieldChoices, left \in WordChoices, right \in WordChoices :
       fnq' = [fn |-> "ExtrBits<n,p>(CopyBits<n,p>)", n |-> f[1], p |-> f[2],
               left |-> left, right |-> right,
               ret |-> ExtrBits(CopyBits(left, right, f[1], f[2]), f[1], f[2])]
  /\ UNCHANGED <<fitvars, lutq>>

InsertAndExtractRunTime ==
  /\ fnq = NoQuery
  /\ \E f \in FieldChoices, left \in WordChoices, right \in WordChoices :
       fnq' = [fn |-> "ExtrBits(CopyBits)", n |-> f[1], p |-> f[2],
               left |-> left, right |-> right,
               ret |-> ExtrBitsRunTime(CopyBitsRunTime(left, right, f[1], f[2]), f[1], f[2])]
  /\ UNCHANGED <<fitvars, lutq>>

NextBits ==
  \/ InsertAndExtract
  \/ InsertAndExtractRunTime

SpecBits == Init /\ [][NextBits]_vars

\* C28 as stated: for n > 0, p >= 0, p + n <= 64 and all 64-bit left and
\* right, ExtrBits<n, p>(CopyBits<n, p>(left, right)) is the low n bits of
\* right, and so is the run-time pair
C28_ExtractGivesBackField ==
  fnq.fn \in {"ExtrBits<n,p>(CopyBits<n,p>)", "ExtrBits(CopyBits)"} =>
    fnq.ret = fnq.right \cap (0 .. (fnq.n - 1))

\* the run-time pair gives the field back, and so does the template pair
\* unless the field starts above bit 0 and ends at bit 63
FieldBackOutsideTopFields ==
  (\/ fnq.fn = "ExtrBits(CopyBits)"
   \/ fnq.fn = "ExtrBits<n,p>(CopyBits<n,p>)" /\ (fnq.p = 0 \/ fnq.p + fnq.n < WordBits)) =>
    fnq.ret = fnq.right \cap (0 .. (fnq.n - 1))


(***************************************************************************)
(* simd_sse.h: CompareAnyLessThan, the Col4 and the Vec4 one               *)
(***************************************************************************)
\* _mm_cmpeq_epi32: all ones in the lanes that are equal
mm_cmpeq_epi32(va, vb) ==
  [i \in 1 .. 4 |-> IF va[i] = vb[i] THEN <<HalfRange - 1, HalfRange - 1>> ELSE <<0, 0>>]

\* _mm_movemask_epi8: the top bit of each of the 16 bytes, byte 0 lowest
mm_movemask_epi8(va) ==
  LET top(h, b) == IF b = 0 THEN (h % 256) \div 128 ELSE h \div 32768
      bit[k \in 0 .. 15] == top(va[(k \div 4) + 1][IF k % 4 < 2 THEN 2 ELSE 1], k % 2)
      sum[k \in 0 .. 16] == IF k = 16 THEN 0 ELSE bit[k] + 2 * sum[k + 1]
  IN  sum[0]

\* CompareAnyLessThan(Col4 left, Col4 right)
CompareAnyLessThan(left, right) == mm_movemask_epi8(mm_cmpeq_epi32(left, right)) # 0

\* CompareAnyLessThan(Vec4 left, Vec4 right): _mm_cmplt_ps and _mm_movemask_ps
CompareAnyLessThanVec4(left, right) ==
  LET bits == [i \in 1 .. 4 |-> IF left[i] < right[i] THEN 1 ELSE 0]
  IN  bits[1] + 2 * bits[2] + 4 * bits[3] + 8 * bits[4] # 0

CompareLaneChoices == {Lane(0), Lane(70000), <<65535, 65535>>}

CompareFloatChoices == {-1, 0, 70000}

\* the calls a client makes
Col4CompareAnyLessThan ==
  /\ fnq = NoQuery
  /\ \E va \in [1 .. 4 -> CompareLaneChoices], vb \in [1 .. 4 -> CompareLaneChoices] :
       /\ va[3] = va[4]
       /\ vb[3] = vb[4]
       /\ fnq' = [fn |-> "Col4 CompareAnyLessThan", a |-> va, b |-> vb,
                  ret |-> CompareAnyLessThan(va, vb)]
  /\ UNCHANGED <<fitvars, lutq>>

Vec4CompareAnyLessThan ==
  /\ fnq = NoQuery
  /\ \E va \in [1 .. 4 -> CompareFloatChoices], vb \in [1 .. 4 -> CompareFloatChoices] :
       /\ va[3] = va[4]
       /\ vb[3] = vb[4]
       /\ fnq' = [fn |-> "Vec4 CompareAnyLessThan", a |-> va, b |-> vb,
                  ret |-> CompareAnyLessThanVec4(va, vb)]
  /\ UNCHANGED <<fitvars, lutq>>

NextCompare ==
  \/ Col4CompareAnyLessThan
  \/ Vec4CompareAnyLessThan

SpecCompare == Init /\ [][NextCompare]_vars

\* a 32-bit lane read as a signed number is less than another
LaneLess(p, q) ==
  \/ Signed16(p[1]) < Signed16(q[1])
  \/ p[1] = q[1] /\ p[2] < q[2]

\* C29 as stated: CompareAnyLessThan(left, right) on Col4 is true exactly
\* when at least one lane of left is less than the same lane of right
C29_TrueIffSomeLaneLess ==
  fnq.fn = "Col4 CompareAnyLessThan" =>
    (fnq.ret <=> \E i \in 1 .. 4 : LaneLess(fnq.a[i], fnq.b[i]))

\* the Vec4 function is true exactly when some lane is less
Vec4TrueIffSomeLaneLess ==
  fnq.fn = "Vec4 CompareAnyLessThan" =>
    (fnq.ret <=> \E i \in 1 .. 4 : fnq.a[i] < fnq.b[i])

\* the Col4 function is true exactly when some lane is equal
Col4TrueIffSomeLaneEqual ==
  fnq.fn = "Col4 CompareAnyLessThan" =>
    (fnq.ret <=> \E i \in 1 .. 4 : fnq.a[i] = fnq.b[i])

=============================================================================
